---- MODULE Spec2Model ----
(***************************************************************************)
(* Model of the mock-data seeder of the portfolio backend                   *)
(* (src/src/mockdata.ts): populate_with_mock_data() run by several          *)
(* processes, several times each, against one shared MongoDB datastore.     *)
(*                                                                         *)
(* One action per suspension point (await) of populate_with_mock_data: the  *)
(* action performs the awaited datastore call and the synchronous code      *)
(* that follows it up to the next await.                                    *)
(***************************************************************************)
EXTENDS Integers, Sequences, FiniteSets, TLC

(* ---------------------------- bounds ---------------------------------- *)
NumProcs == 2          \* processes sharing the datastore
MaxCalls == 2          \* invocations of populate_with_mock_data per process
MaxInvocations == 3    \* invocations of populate_with_mock_data in all
MaxTicks == 1          \* seconds the wall clock may advance during a run
StartTime == 1000000   \* Math.floor(Date.now() / 1000) when the run begins
MaxRequests == 1       \* HTTP requests received by the processes in all
MaxStoreOps == 2       \* requests and model calls writing the submission store

Procs == 1 .. NumProcs
Calls == Procs \X (1 .. MaxCalls)      \* <<process, number of the call>>

(* ------------------------ program constants --------------------------- *)
SeedId == 1                \* new ObjectId("000000000000000000000001")
DuplicateKeyCode == 11000  \* (error as any).code === 11000

(* The literal list mockSubmissions of insertMockData; offset is the number *)
(* of seconds subtracted from Math.floor(Date.now() / 1000).                *)
MockData ==
  << [name |-> "Rajesh Kumar",
      email |-> "rajesh.kumar@example.com",
      subject |-> "Collaboration Opportunity",
      message |-> "Hi Kaviya, I came across your portfolio and I'm impressed with your full-stack development skills. I'd like to discuss a potential collaboration on a MERN stack project. Please let me know if you're interested.",
      offset |-> 86400 * 7],
     [name |-> "Priya Sharma",
      email |-> "priya.sharma@techcorp.com",
      subject |-> "Job Opportunity - Senior Full Stack Developer",
      message |-> "Hello Kaviya, We are looking for a talented Full Stack Developer to join our team. Your experience with React, Node.js, and MongoDB aligns perfectly with our requirements. Would you be available for a discussion?",
      offset |-> 86400 * 5],
     [name |-> "Arun Patel",
      email |-> "arun.patel@startup.io",
      subject |-> "Freelance Project Inquiry",
      message |-> "Hi, I'm working on a weather application and noticed your weather project in your portfolio. I'd love to discuss a freelance opportunity to build something similar with additional features. Let me know your availability.",
      offset |-> 86400 * 3],
     [name |-> "Sneha Reddy",
      email |-> "sneha.reddy@designstudio.com",
      subject |-> "UI/UX Collaboration",
      message |-> "Hello Kaviya, I'm a UI/UX designer and I'm impressed by your portfolio design. I'd like to collaborate on some projects where we can combine our skills. Are you open to freelance work?",
      offset |-> 86400 * 2],
     [name |-> "Vikram Singh",
      email |-> "vikram.singh@gmail.com",
      subject |-> "Question about GitHub Profile Finder",
      message |-> "Hey Kaviya, I really liked your GitHub Profile Finder project. I'm a beginner developer and would love to know more about how you implemented it. Could you share some insights or resources?",
      offset |-> 86400],
     [name |-> "Meera Iyer",
      email |-> "meera.iyer@webagency.com",
      subject |-> "Portfolio Website Development",
      message |-> "Hi Kaviya, Our agency is looking for a developer to build portfolio websites for our clients. Your portfolio is exactly the kind of quality we're looking for. Would you be interested in taking on such projects?",
      offset |-> 43200],
     [name |-> "Karthik Menon",
      email |-> "karthik.menon@example.com",
      subject |-> "Mentorship Request",
      message |-> "Hello Kaviya, I'm a student learning full-stack development and I'm really inspired by your work. Would you be open to mentoring or providing guidance on my learning journey? I'd really appreciate any help.",
      offset |-> 21600],
     [name |-> "Divya Nair",
      email |-> "divya.nair@techsolutions.in",
      subject |-> "Recipe Finder App - Partnership",
      message |-> "Hi Kaviya, I run a food blog and I'm interested in integrating a recipe finder feature similar to your project. Would you be interested in discussing a partnership or custom development work?",
      offset |-> 7200],
     [name |-> "Arjun Desai",
      email |-> "arjun.desai@innovate.com",
      subject |-> "Speaking Opportunity at Tech Conference",
      message |-> "Hello Kaviya, We're organizing a tech conference in Coimbatore and would love to have you as a speaker to share your experience as a Full Stack Developer. Please let us know if you'd be interested.",
      offset |-> 3600],
     [name |-> "Lakshmi Krishnan",
      email |-> "lakshmi.k@devteam.com",
      subject |-> "Budget Tracking App Inquiry",
      message |-> "Hi Kaviya, I saw your budget tracking application and I'm interested in having a similar app developed for our small business. Could we schedule a call to discuss the requirements and pricing?",
      offset |-> 1800] >>

BatchSize == Len(MockData)

(* ------------------------------ errors -------------------------------- *)
(* A rejected datastore call: op names the call, code is the error's code   *)
(* property (0: the error object has no code).                              *)
Err(op, code) == [op |-> op, code |-> code]
NoError == Err("none", 0)
OtherCodes == {0}                             \* any error that is not a duplicate key
InsertCodes == OtherCodes \cup {DuplicateKeyCode}  \* insertMany may hit a unique index

VARIABLES
  populationAttempted,        \* per process: the module-level flag
  pc,                         \* per call: the await the call is suspended at
  ret,                        \* per call: how the promise of the call settled
  result,                     \* per call: result.upsertedCount of the upsert
  error,                      \* per call: the error bound by a catch clause
  updateError,                \* per call: the error bound by the innermost catch
  session,                    \* per call: the ClientSession of the call
  issuedAt,                   \* per call: Date.now()/1000 as read for the pending update
                              \*   when it was sent (StartTime while none is pending)
  mockSubmissions,            \* per call: the array built by insertMockData, while
                              \*   insertMockData runs
  txn,                        \* per call: uncommitted writes of session.withTransaction
  lockCalls,                  \* per call: upserts of the flag document sent
  insertManyCalls,            \* per call: insertMany calls sent
  mock_data_execution,        \* collection "mock_data_execution": a set of documents
  contact_form_submissions,   \* collection "contact_form_submissions", in insertion order
  nextId,                     \* next ObjectId of a submission document
  now,                        \* the wall clock, in seconds
  useMock,                    \* per process: process.env.USE_MOCK === "true"
  mockDataInitialized,        \* per process: the promise of index.ts line 31
  requests,                   \* per request: the process and the middleware it is at
  handler,                    \* the route handler being run: its await and its response
  call,                       \* the call of a method of ContactFormSubmission made by
                              \*   other code than a route handler: its await
  storeOps                    \* operations on the submission store started so far

locals == <<result, error, updateError, session, issuedAt, mockSubmissions, txn>>
counters == <<lockCalls, insertManyCalls>>
store == <<mock_data_execution, contact_form_submissions, nextId>>
appVars == <<useMock, mockDataInitialized, requests, handler, call, storeOps>>
vars == <<populationAttempted, pc, ret, locals, counters, store, now, appVars>>

Pending == [status |-> "pending", error |-> NoError]
Returned == [status |-> "returned", error |-> NoError]
Thrown(e) == [status |-> "thrown", error |-> e]
NoTxn == [state |-> "none", inserts |-> <<>>, updates |-> <<>>]
NoRequest == [proc |-> 0, stage |-> "none"]
NoBody == [error |-> ""]
IdleHandler == [pc |-> "idle", id |-> 0, status |-> 0, body |-> NoBody]
IdleCall == [pc |-> "idle"]

Init ==
  /\ populationAttempted = [p \in Procs |-> FALSE]
  /\ pc = [i \in Calls |-> "idle"]
  /\ ret = [i \in Calls |-> Pending]
  /\ result = [i \in Calls |-> "none"]
  /\ error = [i \in Calls |-> NoError]
  /\ updateError = [i \in Calls |-> NoError]
  /\ session = [i \in Calls |-> "none"]
  /\ issuedAt = [i \in Calls |-> StartTime]
  /\ mockSubmissions = [i \in Calls |-> <<>>]
  /\ txn = [i \in Calls |-> NoTxn]
  /\ lockCalls = [i \in Calls |-> 0]
  /\ insertManyCalls = [i \in Calls |-> 0]
  /\ mock_data_execution = {}
  /\ contact_form_submissions = <<>>
  /\ nextId = 1
  /\ now = StartTime
  /\ useMock = [p \in Procs |-> FALSE]
  /\ mockDataInitialized = [p \in Procs |-> "unloaded"]
  /\ requests = [r \in 1 .. MaxRequests |-> NoRequest]
  /\ handler = IdleHandler
  /\ call = IdleCall
  /\ storeOps = 0

(* --------------------------- datastore -------------------------------- *)
(* updateOne(filter by _id, {$set: fields}): the listed fields overwrite or *)
(* extend the matching document, every other document is left alone.        *)
SetFields(coll, id, fields) ==
  {IF d._id = id THEN fields @@ d ELSE d : d \in coll}

UpsertedCountAlwaysOne(coll, id) == 1

UpsertedCountRetryFailed(coll, id) ==
  IF \E d \in coll : d._id = id /\ "failed" \notin DOMAIN d THEN 0 ELSE 1

(* upsertedCount of updateOne({_id}, {$setOnInsert}, {upsert: true}).       *)
UpsertedCount(coll, id) ==
  IF \E d \in coll : d._id = id THEN 0 ELSE 1

UpsertAsSet(coll, id, fields) ==
  IF UpsertedCount(coll, id) = 1
    THEN coll \cup {[_id |-> id] @@ fields}
    ELSE SetFields(coll, id, fields)

(* The collection after updateOne({_id}, {$setOnInsert: fields}, {upsert}). *)
Upsert(coll, id, fields) ==
  IF UpsertedCount(coll, id) = 1
    THEN coll \cup {[_id |-> id] @@ fields}
    ELSE coll

(* insertOne/insertMany: the driver gives every document a fresh _id.       *)
WithIds(docs, first) ==
  [j \in 1 .. Len(docs) |-> [_id |-> first + j - 1] @@ docs[j]]

RECURSIVE ApplyUpdates(_, _, _)
ApplyUpdates(coll, id, updates) ==
  IF updates = <<>> THEN coll
  ELSE ApplyUpdates(SetFields(coll, id, Head(updates)), id, Tail(updates))

(* updateOne(filter, {$set: fields}, {session}): nothing is visible outside *)
(* the transaction before it commits.                                       *)
VisibleAfterUpdateNoSession(coll, id, fields) == SetFields(coll, id, fields)

VisibleAfterSessionUpdate(coll, id, fields) == coll

EndSessionSkipped(s) == s

(* Line 206: session.endSession() in the finally clause.                    *)
EndSession(s) == "ended"

(* insertMany(docs, {session}): nothing is visible outside the transaction  *)
(* before it commits.                                                       *)
VisibleAfterInsertNoSession(subs, docs) == subs \o docs

VisibleAfterSessionInsert(subs, docs) == subs

(* ----------------------- populate_with_mock_data ---------------------- *)
BuildMockSubmissionsReversed(t, k) ==
  [j \in 1 .. BatchSize |->
     [name |-> MockData[BatchSize + 1 - j].name,
      email |-> MockData[BatchSize + 1 - j].email,
      subject |-> MockData[BatchSize + 1 - j].subject,
      message |-> MockData[BatchSize + 1 - j].message,
      submission_timestamp |->
        (IF j <= k THEN t ELSE t + 1) - MockData[BatchSize + 1 - j].offset]]

(* The array literal of insertMockData.  Date.now() is read once per        *)
(* element; the clock shows t for the first k elements and t + 1 after.     *)
BuildMockSubmissions(t, k) ==
  [j \in 1 .. BatchSize |->
     [name |-> MockData[j].name,
      email |-> MockData[j].email,
      subject |-> MockData[j].subject,
      message |-> MockData[j].message,
      submission_timestamp |-> (IF j <= k THEN t ELSE t + 1) - MockData[j].offset]]

OuterCatchRethrowAll(e) == Thrown(e)

OuterCatchSwallowAll(e) == Returned

(* The outer catch clause: a duplicate-key error is swallowed, every other  *)
(* error is thrown to the caller.                                           *)
OuterCatch(e) ==
  IF e.code = DuplicateKeyCode THEN Returned ELSE Thrown(e)

AlreadyAttemptedNever(p) == FALSE

(* Line 135: the test of the module-level flag.                             *)
AlreadyAttempted(p) == populationAttempted[p]

(* Lines 135-142: the in-process flag, then the call of database.getDb().   *)
Invoke(i) ==
  /\ pc[i] = "idle"
  /\ IF AlreadyAttempted(i[1])
       THEN /\ pc' = [pc EXCEPT ![i] = "done"]
            /\ ret' = [ret EXCEPT ![i] = Returned]
            /\ UNCHANGED populationAttempted
       ELSE /\ populationAttempted' = [populationAttempted EXCEPT ![i[1]] = TRUE]
            /\ pc' = [pc EXCEPT ![i] = "getDb"]
            /\ UNCHANGED ret
  /\ UNCHANGED <<locals, counters, store, now>>

(* A call of populate_with_mock_data by some caller in process i[1].        *)
Call(i) ==
  /\ i[2] > 1 => pc[<<i[1], i[2] - 1>>] # "idle"
  /\ Cardinality({j \in Calls : pc[j] # "idle"}) < MaxInvocations
  /\ Invoke(i)
  /\ UNCHANGED appVars

(* Line 142: database.getDb() settles; on success the upsert of lines       *)
(* 146-156 is sent.  A rejection is outside every try block.                *)
GetDb(i) ==
  /\ pc[i] = "getDb"
  /\ \/ /\ pc' = [pc EXCEPT ![i] = "lock"]
        /\ issuedAt' = [issuedAt EXCEPT ![i] = now]
        /\ UNCHANGED ret
     \/ \E c \in OtherCodes :
          /\ pc' = [pc EXCEPT ![i] = "done"]
          /\ ret' = [ret EXCEPT ![i] = Thrown(Err("getDb", c))]
          /\ UNCHANGED issuedAt
  /\ UNCHANGED <<populationAttempted, result, error, updateError, session,
                 mockSubmissions, txn, counters, store, now>>
  /\ UNCHANGED appVars

(* Lines 146-161 and 208-216: the conditional insert of the flag document   *)
(* is executed by the datastore, or fails.                                  *)
LockAttempt(i) ==
  /\ pc[i] = "lock"
  /\ lockCalls' = [lockCalls EXCEPT ![i] = @ + 1]
  /\ \/ /\ mock_data_execution' =
             Upsert(mock_data_execution, SeedId,
                    [executed |-> TRUE, timestamp |-> issuedAt[i], instance |-> i])
        /\ IF UpsertedCount(mock_data_execution, SeedId) = 0
             THEN /\ result' = [result EXCEPT ![i] = "matched"]
                  /\ pc' = [pc EXCEPT ![i] = "done"]
                  /\ ret' = [ret EXCEPT ![i] = Returned]
             ELSE /\ result' = [result EXCEPT ![i] = "upserted"]
                  /\ pc' = [pc EXCEPT ![i] = "getClient"]
                  /\ UNCHANGED ret
        /\ UNCHANGED error
     \/ \E c \in OtherCodes \cup
                 (IF UpsertedCount(mock_data_execution, SeedId) = 0
                    THEN {DuplicateKeyCode} ELSE {}) :
          /\ error' = [error EXCEPT ![i] = Err("lock", c)]
          /\ ret' = [ret EXCEPT ![i] = OuterCatch(Err("lock", c))]
          /\ pc' = [pc EXCEPT ![i] = "done"]
          /\ UNCHANGED <<result, mock_data_execution>>
  /\ issuedAt' = [issuedAt EXCEPT ![i] = StartTime]
  /\ UNCHANGED <<populationAttempted, updateError, session,
                 mockSubmissions, txn, insertManyCalls,
                 contact_form_submissions, nextId, now>>
  /\ UNCHANGED appVars

(* Lines 166-167: database.getClient() settles and client.startSession()    *)
(* is called.  It returns the session (the call then waits one turn on a    *)
(* value that is no promise) or a promise of it, or it throws; a rejection  *)
(* or an exception is outside the inner try block.                          *)
GetClient(i) ==
  /\ pc[i] = "getClient"
  /\ \/ /\ \E s \in {"open", "none"} : session' = [session EXCEPT ![i] = s]
        /\ pc' = [pc EXCEPT ![i] = "startSession"]
        /\ UNCHANGED <<ret, error>>
     \/ \E op \in {"getClient", "startSession"}, c \in OtherCodes :
          /\ error' = [error EXCEPT ![i] = Err(op, c)]
          /\ ret' = [ret EXCEPT ![i] = OuterCatch(Err(op, c))]
          /\ pc' = [pc EXCEPT ![i] = "done"]
          /\ UNCHANGED session
  /\ UNCHANGED <<populationAttempted, result, updateError, issuedAt, mockSubmissions,
                 txn, counters, store, now>>
  /\ UNCHANGED appVars

(* Lines 167-171: the wait on startSession() is over; on success            *)
(* withTransaction starts the callback, which builds the array and sends    *)
(* insertMany.  Only a promise can reject.                                  *)
StartSession(i) ==
  /\ pc[i] = "startSession"
  /\ \/ \E k \in 0 .. BatchSize :
          /\ k < BatchSize => now < StartTime + MaxTicks
          /\ session' = [session EXCEPT ![i] = "open"]
          /\ txn' = [txn EXCEPT ![i] = [NoTxn EXCEPT !.state = "active"]]
          /\ mockSubmissions' = [mockSubmissions EXCEPT ![i] = BuildMockSubmissions(now, k)]
          /\ now' = IF k < BatchSize THEN now + 1 ELSE now
          /\ pc' = [pc EXCEPT ![i] = "insertMany"]
          /\ UNCHANGED <<ret, error>>
     \/ \E c \in OtherCodes :
          /\ session[i] = "none"
          /\ error' = [error EXCEPT ![i] = Err("startSession", c)]
          /\ ret' = [ret EXCEPT ![i] = OuterCatch(Err("startSession", c))]
          /\ pc' = [pc EXCEPT ![i] = "done"]
          /\ UNCHANGED <<session, txn, mockSubmissions, now>>
  /\ UNCHANGED <<populationAttempted, result, updateError, issuedAt, counters, store>>
  /\ UNCHANGED appVars

(* withTransaction: the callback or the commit failed; the transaction is   *)
(* aborted, its writes are dropped, and the inner catch clause (line 186)   *)
(* sends the update that marks the flag document failed.                    *)
AbortTransaction(i, e) ==
  /\ txn' = [txn EXCEPT ![i] = [NoTxn EXCEPT !.state = "aborted"]]
  /\ error' = [error EXCEPT ![i] = e]
  /\ issuedAt' = [issuedAt EXCEPT ![i] = now]
  /\ pc' = [pc EXCEPT ![i] = "markFailed"]

(* Line 125, then lines 173-182: insertMany inside the session settles; on  *)
(* success the completion update is sent.                                   *)
InsertMany(i) ==
  /\ pc[i] = "insertMany"
  /\ insertManyCalls' = [insertManyCalls EXCEPT ![i] = @ + 1]
  /\ mockSubmissions' = [mockSubmissions EXCEPT ![i] = <<>>]
  /\ \/ /\ txn' = [txn EXCEPT ![i].inserts = @ \o WithIds(mockSubmissions[i], nextId)]
        /\ contact_form_submissions' =
             VisibleAfterSessionInsert(contact_form_submissions,
                                       WithIds(mockSubmissions[i], nextId))
        /\ nextId' = nextId + Len(mockSubmissions[i])
        /\ issuedAt' = [issuedAt EXCEPT ![i] = now]
        /\ pc' = [pc EXCEPT ![i] = "txUpdate"]
        /\ UNCHANGED error
     \/ \E c \in InsertCodes :
          /\ AbortTransaction(i, Err("insertMany", c))
          /\ UNCHANGED <<nextId, contact_form_submissions>>
  /\ UNCHANGED <<populationAttempted, ret, result, updateError, session,
                 lockCalls, mock_data_execution, now>>
  /\ UNCHANGED appVars

(* Lines 173-182: the update setting completed, inside the session.         *)
TxUpdate(i) ==
  /\ pc[i] = "txUpdate"
  /\ \/ /\ txn' = [txn EXCEPT ![i].updates =
                     Append(@, [completed |-> TRUE, completedTimestamp |-> issuedAt[i]])]
        /\ mock_data_execution' =
             VisibleAfterSessionUpdate(mock_data_execution, SeedId,
               [completed |-> TRUE, completedTimestamp |-> issuedAt[i]])
        /\ pc' = [pc EXCEPT ![i] = "commit"]
        /\ issuedAt' = [issuedAt EXCEPT ![i] = StartTime]
        /\ UNCHANGED error
     \/ \E c \in OtherCodes :
          /\ AbortTransaction(i, Err("complete", c))
          /\ UNCHANGED mock_data_execution
  /\ UNCHANGED <<populationAttempted, ret, result, updateError, session,
                 mockSubmissions, counters, contact_form_submissions, nextId, now>>
  /\ UNCHANGED appVars

CommittedFlagsLost(coll, t) == coll

(* The writes of a committed transaction become visible together.           *)
CommittedSubmissions(subs, t) == subs \o t.inserts
CommittedFlags(coll, t) == ApplyUpdates(coll, SeedId, t.updates)

(* Lines 170-185 and 205-207: withTransaction commits; then the finally     *)
(* clause ends the session and the call returns.                            *)
Commit(i) ==
  /\ pc[i] = "commit"
  /\ \/ /\ contact_form_submissions' = CommittedSubmissions(contact_form_submissions, txn[i])
        /\ mock_data_execution' = CommittedFlags(mock_data_execution, txn[i])
        /\ txn' = [txn EXCEPT ![i] = [NoTxn EXCEPT !.state = "committed"]]
        /\ session' = [session EXCEPT ![i] = EndSession(@)]
        /\ ret' = [ret EXCEPT ![i] = Returned]
        /\ pc' = [pc EXCEPT ![i] = "done"]
        /\ issuedAt' = [issuedAt EXCEPT ![i] = StartTime]
        /\ UNCHANGED error
     \/ \E c \in OtherCodes :
          /\ AbortTransaction(i, Err("commit", c))
          /\ UNCHANGED <<session, ret, mock_data_execution, contact_form_submissions>>
  /\ UNCHANGED <<populationAttempted, result, updateError, mockSubmissions,
                 counters, nextId, now>>
  /\ UNCHANGED appVars

(* The $set of lines 193-197; toString() of the error is kept as the error. *)
FailedFields(e, t) == [failed |-> TRUE, failedTimestamp |-> t, error |-> e]

(* Lines 189-216: the best-effort update settles (a rejection is only       *)
(* logged), the original error is thrown again, the finally clause ends the *)
(* session and the outer catch clause handles the error.                    *)
MarkFailed(i) ==
  /\ pc[i] = "markFailed"
  /\ \/ /\ mock_data_execution' =
             SetFields(mock_data_execution, SeedId, FailedFields(error[i], issuedAt[i]))
        /\ UNCHANGED updateError
     \/ \E c \in OtherCodes :
          /\ updateError' = [updateError EXCEPT ![i] = Err("markFailed", c)]
          /\ UNCHANGED mock_data_execution
  /\ session' = [session EXCEPT ![i] = EndSession(@)]
  /\ ret' = [ret EXCEPT ![i] = OuterCatch(error[i])]
  /\ pc' = [pc EXCEPT ![i] = "done"]
  /\ issuedAt' = [issuedAt EXCEPT ![i] = StartTime]
  /\ UNCHANGED <<populationAttempted, result, error, mockSubmissions,
                 txn, counters, contact_form_submissions, nextId, now>>
  /\ UNCHANGED appVars

(* The wall clock advances between two steps.                               *)
Tick ==
  /\ now < StartTime + MaxTicks
  /\ now' = now + 1
  /\ UNCHANGED <<populationAttempted, pc, ret, locals, counters, store>>
  /\ UNCHANGED appVars

Next ==
  \/ \E i \in Calls : Call(i)
  \/ \E i \in Calls : GetDb(i)
  \/ \E i \in Calls : LockAttempt(i)
  \/ \E i \in Calls : GetClient(i)
  \/ \E i \in Calls : StartSession(i)
  \/ \E i \in Calls : InsertMany(i)
  \/ \E i \in Calls : TxUpdate(i)
  \/ \E i \in Calls : Commit(i)
  \/ \E i \in Calls : MarkFailed(i)
  \/ Tick

Spec == Init /\ [][Next]_vars

(* ------------------------- observation helpers ------------------------ *)
Flags == {d \in mock_data_execution : d._id = SeedId}
HasTrue(d, f) == f \in DOMAIN d /\ d[f] = TRUE
FlagCompleted == \E d \in Flags : HasTrue(d, "completed")
FlagFailed == \E d \in Flags : HasTrue(d, "failed")
FlagHas(f) == \E d \in Flags : f \in DOMAIN d

SameContent(d, m) ==
  /\ d.name = m.name
  /\ d.email = m.email
  /\ d.subject = m.subject
  /\ d.message = m.message

(* subs is exactly one copy of the batch, in the order of the list.         *)
IsBatch(subs) ==
  /\ Len(subs) = BatchSize
  /\ \A j \in 1 .. BatchSize : SameContent(subs[j], MockData[j])
  /\ \A j, k \in 1 .. BatchSize : j # k => subs[j]._id # subs[k]._id

(* The documents of the store that carry the content of a batch record.     *)
BatchRecords(subs) ==
  {j \in 1 .. Len(subs) : \E k \in 1 .. BatchSize : SameContent(subs[j], MockData[k])}

Inserted(i) == result[i] = "upserted"
Ended == (\A i \in Calls : pc[i] \in {"idle", "done"}) /\ (\E i \in Calls : pc[i] = "done")
OperationFailed(i) ==
  \/ ret[i].status = "thrown"
  \/ updateError[i] # NoError
  \/ error[i] # NoError /\ error[i] # Err("lock", DuplicateKeyCode)
TouchedNothing(i) ==
  /\ session[i] = "none"
  /\ txn[i] = NoTxn
  /\ insertManyCalls[i] = 0
  /\ mockSubmissions[i] = <<>>
StoreUnchanged ==
  /\ mock_data_execution' = mock_data_execution
  /\ contact_form_submissions' = contact_form_submissions

ExactlyOneSeeds ==
  /\ Cardinality({i \in Calls : Inserted(i)}) = 1
  /\ {i \in Calls : insertManyCalls[i] > 0} = {i \in Calls : Inserted(i)}
  /\ \A i \in Calls : insertManyCalls[i] <= 1

(* C1 as stated: when the invocations made have all ended, exactly one of   *)
(* them inserted the flag document and sent the batch insert, and the store *)
(* holds exactly one copy of the batch.                                     *)
C1_Original ==
  Ended => ExactlyOneSeeds /\ IsBatch(contact_form_submissions)

(* C1 amended: at most one invocation ever inserts the flag document, only  *)
(* that invocation sends the batch insert and sends it at most once, the    *)
(* store holds nothing or exactly one full copy of the batch; and when no   *)
(* datastore call of any invocation failed (a duplicate-key answer to the   *)
(* conditional insert aside), exactly one invocation seeds and the store    *)
(* ends with exactly one copy.                                              *)
C1_AtMostOneSeed ==
  /\ Cardinality({i \in Calls : Inserted(i)}) <= 1
  /\ \A i \in Calls : insertManyCalls[i] <= (IF Inserted(i) THEN 1 ELSE 0)
  /\ contact_form_submissions = <<>> \/ IsBatch(contact_form_submissions)
  /\ (Ended /\ \A i \in Calls : ~OperationFailed(i))
       => ExactlyOneSeeds /\ IsBatch(contact_form_submissions)

C1_Witness ==
  \E i, j \in Calls :
    /\ i[1] # j[1]
    /\ Inserted(i) /\ ret[i] = Returned
    /\ lockCalls[j] = 1 /\ ret[j] = Returned /\ ~Inserted(j)
    /\ Ended
    /\ IsBatch(contact_form_submissions)

(* C2 as stated: when the completion update failed inside the transaction,  *)
(* the ended call leaves no batch record in the store and a flag document   *)
(* with failed = true and no completed field.                               *)
C2_Original ==
  \A i \in Calls :
    (pc[i] = "done" /\ error[i].op = "complete") =>
      /\ BatchRecords(contact_form_submissions) = {}
      /\ FlagFailed
      /\ ~FlagHas("completed")

(* C2 amended: when the completion update failed inside the transaction,    *)
(* the ended call leaves no batch record in the store and a flag document   *)
(* with executed = true and no completed field; the document has            *)
(* failed = true exactly when the best-effort update that marks the failure *)
(* succeeded, and no failed field otherwise.                                *)
C2_Rollback ==
  \A i \in Calls :
    (pc[i] = "done" /\ error[i].op = "complete") =>
      /\ BatchRecords(contact_form_submissions) = {}
      /\ \E d \in Flags : HasTrue(d, "executed")
      /\ ~FlagHas("completed")
      /\ FlagFailed <=> updateError[i] = NoError
      /\ FlagHas("failed") <=> updateError[i] = NoError

C2_Witness ==
  \E i \in Calls :
    /\ pc[i] = "done" /\ error[i].op = "complete"
    /\ insertManyCalls[i] = 1
    /\ txn[i].state = "aborted"
    /\ FlagFailed

(* C3: outside the transaction the store shows none or exactly one full     *)
(* copy of the batch, and the flag document has completed = true exactly    *)
(* when the batch is visible, which is exactly when a transaction of the    *)
(* seeder has committed.                                                    *)
C3_AllOrNothing ==
  /\ contact_form_submissions = <<>> \/ IsBatch(contact_form_submissions)
  /\ FlagCompleted <=> IsBatch(contact_form_submissions)
  /\ FlagCompleted <=> \E i \in Calls : txn[i].state = "committed"
  /\ FlagHas("completed") => FlagCompleted

C3_Witness ==
  \E i \in Calls :
    /\ txn[i].state = "committed"
    /\ IsBatch(contact_form_submissions)
    /\ FlagCompleted

(* C4: in one process the conditional insert and the batch insert are sent  *)
(* at most once over all calls; every call after the first returns          *)
(* successfully in its first step, having sent nothing to the datastore and *)
(* leaving both collections as they were, whatever became of the first.     *)
C4_InProcessOnce ==
  /\ [](\A p \in Procs :
          /\ Cardinality({i \in Calls : i[1] = p /\ lockCalls[i] > 0}) <= 1
          /\ Cardinality({i \in Calls : i[1] = p /\ insertManyCalls[i] > 0}) <= 1
          /\ \A i \in Calls : i[1] = p => lockCalls[i] <= 1 /\ insertManyCalls[i] <= 1)
  /\ [](\A i \in Calls :
          (i[2] > 1 /\ pc[i] # "idle") =>
            /\ pc[i] = "done" /\ ret[i] = Returned
            /\ lockCalls[i] = 0 /\ result[i] = "none"
            /\ TouchedNothing(i))
  /\ [][\A i \in Calls :
          (i[2] > 1 /\ pc[i] # pc'[i]) => StoreUnchanged]_vars

C4_Witness ==
  \E p \in Procs :
    /\ ret[<<p, 1>>].status = "thrown"
    /\ error[<<p, 1>>].op = "insertMany"
    /\ pc[<<p, 2>>] = "done"
    /\ ret[<<p, 2>>] = Returned

(* C5: a conditional insert that finds the flag document present and is     *)
(* answered without error changes neither collection (every field of the    *)
(* flag document stays as it was) and ends the call at once with a          *)
(* successful return; that call never opens a session nor a transaction.    *)
C5_AlreadySeededNoWrites ==
  /\ [][\A i \in Calls :
          (pc[i] = "lock" /\ pc'[i] # "lock" /\ error'[i] = NoError /\ Flags # {}) =>
            /\ StoreUnchanged
            /\ result'[i] = "matched"
            /\ pc'[i] = "done" /\ ret'[i] = Returned
            /\ TouchedNothing(i)']_vars
  /\ [](\A i \in Calls :
          result[i] = "matched" =>
            pc[i] = "done" /\ ret[i] = Returned /\ TouchedNothing(i))

C5_Witness ==
  \E i \in Calls :
    /\ result[i] = "matched" /\ ret[i] = Returned
    /\ \E d \in Flags : HasTrue(d, "executed") /\ d.instance # i

MockDataWellFormed ==
  /\ \A j \in 1 .. BatchSize :
       /\ MockData[j].name # "" /\ MockData[j].email # ""
       /\ MockData[j].subject # "" /\ MockData[j].message # ""
  /\ \A j \in 1 .. BatchSize - 1 : MockData[j].offset > MockData[j + 1].offset

(* C6: a call that inserted the flag document and met no failure ends with  *)
(* the store holding exactly the records of the list, in list order, every  *)
(* string field non-empty, each timestamp a clock reading minus the offset  *)
(* of its record, offsets strictly decreasing and timestamps not decreasing *)
(* along the list, and the flag document executed and completed, not failed.*)
C6_EndToEnd ==
  \A i \in Calls :
    (pc[i] = "done" /\ Inserted(i) /\ ~OperationFailed(i)) =>
      /\ IsBatch(contact_form_submissions)
      /\ MockDataWellFormed
      /\ \A j \in 1 .. BatchSize :
           /\ contact_form_submissions[j].name # ""
           /\ contact_form_submissions[j].email # ""
           /\ contact_form_submissions[j].subject # ""
           /\ contact_form_submissions[j].message # ""
           /\ contact_form_submissions[j].submission_timestamp + MockData[j].offset
                \in StartTime .. now
      /\ \A j \in 1 .. BatchSize - 1 :
           contact_form_submissions[j].submission_timestamp
             <= contact_form_submissions[j + 1].submission_timestamp
      /\ \E d \in Flags : HasTrue(d, "executed") /\ HasTrue(d, "completed")
      /\ ~FlagHas("failed")

C6_Witness ==
  \E i \in Calls :
    /\ pc[i] = "done" /\ Inserted(i) /\ ~OperationFailed(i)
    /\ Len(contact_form_submissions) = BatchSize
    /\ contact_form_submissions[1].submission_timestamp + MockData[1].offset
         < contact_form_submissions[BatchSize].submission_timestamp
             + MockData[BatchSize].offset

(* C7: a call whose batch insert or completion update failed ends by        *)
(* throwing that same error to its caller, whatever the error's code.       *)
C7_TransactionFailureRaised ==
  \A i \in Calls :
    (pc[i] = "done" /\ error[i].op \in {"insertMany", "complete"}) =>
      ret[i] = Thrown(error[i])

(* C8: when the best-effort update that marks the failure fails too, the    *)
(* call still throws the original transaction error, and the flag document  *)
(* is left executed with neither completed nor failed.                      *)
C8_SecondaryFailureNotMasking ==
  \A i \in Calls :
    (pc[i] = "done" /\ updateError[i] # NoError) =>
      /\ ret[i] = Thrown(error[i])
      /\ ret[i].error.op # "markFailed"
      /\ \E d \in Flags : HasTrue(d, "executed")
      /\ ~FlagHas("completed") /\ ~FlagHas("failed")

(* C9: a conditional insert answered with a duplicate-key error ends the    *)
(* call with a successful return, as a found document does: both            *)
(* collections unchanged, no session, no transaction, no batch insert.      *)
C9_DuplicateKeyIsNoOp ==
  /\ [][\A i \in Calls :
          (pc[i] = "lock" /\ error'[i] = Err("lock", DuplicateKeyCode)) =>
            /\ StoreUnchanged
            /\ pc'[i] = "done" /\ ret'[i] = Returned
            /\ TouchedNothing(i)']_vars
  /\ [](\A i \in Calls :
          error[i] = Err("lock", DuplicateKeyCode) =>
            pc[i] = "done" /\ ret[i] = Returned /\ TouchedNothing(i))

C9_Witness ==
  \E i \in Calls :
    /\ error[i] = Err("lock", DuplicateKeyCode)
    /\ pc[i] = "done"
    /\ Flags # {}

(* C10: a conditional insert (or the connection it needs) that fails with   *)
(* any other error ends the call by throwing that error; both collections   *)
(* are unchanged and the call has opened no session nor transaction.        *)
C10_LockFailureRaised ==
  /\ [][\A i \in Calls :
          (pc[i] \in {"getDb", "lock"} /\ pc'[i] = "done"
             /\ (error'[i] # NoError \/ ret'[i].status = "thrown")
             /\ error'[i].code # DuplicateKeyCode) =>
            /\ StoreUnchanged
            /\ ret'[i].status = "thrown"
            /\ ret'[i].error.op = (IF pc[i] = "lock" THEN "lock" ELSE "getDb")
            /\ pc[i] = "lock" => ret'[i].error = error'[i]
            /\ TouchedNothing(i)']_vars
  /\ [](\A i \in Calls :
          (error[i].op = "lock" /\ error[i].code # DuplicateKeyCode) =>
            pc[i] = "done" /\ ret[i] = Thrown(error[i]) /\ TouchedNothing(i))

C10_Witness ==
  \E i \in Calls :
    /\ error[i].op = "lock" /\ error[i].code # DuplicateKeyCode
    /\ ret[i] = Thrown(error[i])
    /\ Flags = {}

(* The state of the flag document in the state machine of the spec.         *)
Phase ==
  IF Flags = {} THEN "ABSENT"
  ELSE IF FlagCompleted /\ FlagFailed THEN "COMPLETED+FAILED"
  ELSE IF FlagCompleted THEN "COMPLETED"
  ELSE IF FlagFailed THEN "FAILED"
  ELSE "LOCKED"

(* C11: there is never more than one flag document; it only moves           *)
(* ABSENT -> LOCKED -> COMPLETED or ABSENT -> LOCKED -> FAILED, so it is    *)
(* created once, never deleted and never goes back; and every step that     *)
(* changes an existing flag document is a step of a call of the process     *)
(* whose call created it (instance names that call).                        *)
C11_FlagStateMachine ==
  /\ [](Cardinality(Flags) <= 1 /\ Cardinality({i \in Calls : Inserted(i)}) <= 1)
  /\ [](Phase # "COMPLETED+FAILED")
  /\ [][Phase' # Phase =>
          <<Phase, Phase'>> \in {<<"ABSENT", "LOCKED">>,
                                 <<"LOCKED", "COMPLETED">>,
                                 <<"LOCKED", "FAILED">>}]_vars
  /\ [][(Flags # {} /\ Flags' # Flags) =>
          \E i \in Calls :
            /\ pc[i] # pc'[i]
            /\ \A d \in Flags \cup Flags' : d.instance[1] = i[1]]_vars

C11_Witness ==
  /\ Phase = "FAILED"
  /\ \E i, j \in Calls :
       /\ i[1] # j[1]
       /\ Inserted(i) /\ pc[i] = "done"
       /\ result[j] = "matched"

(* C12: the flag document never has completed = true and failed = true      *)
(* together, also after a commit that failed when both writes of the        *)
(* transaction had been sent.                                               *)
C12_CompletedXorFailed ==
  \A d \in Flags : ~(HasTrue(d, "completed") /\ HasTrue(d, "failed"))

C12_Witness ==
  \E i \in Calls :
    /\ pc[i] = "done"
    /\ error[i].op = "commit"
    /\ FlagFailed

(* The seeding attempt has failed: the flag document exists without         *)
(* completed and the call that inserted it has ended.                       *)
SeedingFailed ==
  /\ Flags # {}
  /\ ~FlagCompleted
  /\ \A i \in Calls : Inserted(i) => pc[i] = "done"

(* C13 as stated: once the seeding attempt has failed, every call that ends *)
(* returns successfully and nothing is written.                             *)
C13_Original ==
  [][SeedingFailed =>
       \A i \in Calls :
         (pc[i] # "done" /\ pc'[i] = "done") =>
           ret'[i] = Returned /\ StoreUnchanged]_vars

(* C13 amended: once the seeding attempt has failed it stays failed: no     *)
(* later step of any call sends the batch insert, opens a session or        *)
(* changes either collection, so the store is never seeded; every call that *)
(* ends then returns successfully, unless its own database connection or    *)
(* conditional insert failed with an error other than a duplicate key,      *)
(* which it throws.                                                         *)
C13_FailedSeedNeverRetried ==
  [][SeedingFailed =>
       /\ SeedingFailed'
       /\ StoreUnchanged
       /\ insertManyCalls' = insertManyCalls
       /\ session' = session /\ txn' = txn
       /\ \A i \in Calls :
            (pc[i] # "done" /\ pc'[i] = "done") =>
              \/ ret'[i] = Returned
              \/ /\ ret'[i].status = "thrown"
                 /\ ret'[i].error.op \in {"getDb", "lock"}
                 /\ ret'[i].error.code # DuplicateKeyCode]_vars

C13_Witness ==
  /\ SeedingFailed
  /\ ~FlagFailed
  /\ contact_form_submissions = <<>>
  /\ \E i, j \in Calls :
       /\ i[1] # j[1]
       /\ Inserted(i) /\ updateError[i] # NoError
       /\ result[j] = "matched" /\ ret[j] = Returned

(* C14 as stated, for code that takes one path when nothing fails: a call   *)
(* whose conditional insert is answered without error while the flag        *)
(* document has failed = true takes the lock and goes on to seed.           *)
C14_Original ==
  [][\A j \in Calls :
       (FlagFailed /\ pc[j] = "lock" /\ pc'[j] # "lock" /\ error'[j] = NoError) =>
         result'[j] = "upserted"]_vars

(* C14 amended: a flag document left with failed = true blocks every retry: *)
(* a conditional insert answered without error finds the document and the   *)
(* call returns; from then on the flag document is never changed and never  *)
(* gets completed, and the store stays without the batch.                   *)
C14_FailedBlocksRetry ==
  /\ [][FlagFailed =>
          /\ StoreUnchanged
          /\ \A j \in Calls :
               (pc[j] = "lock" /\ pc'[j] # "lock" /\ error'[j] = NoError) =>
                 result'[j] = "matched" /\ ret'[j] = Returned]_vars
  /\ [](FlagFailed => ~FlagHas("completed") /\ contact_form_submissions = <<>>)

C14_Witness ==
  /\ FlagFailed
  /\ \E i, j \in Calls :
       /\ i[1] # j[1]
       /\ Inserted(i) /\ ret[i].status = "thrown"
       /\ result[j] = "matched" /\ ret[j] = Returned /\ lockCalls[j] = 1

(* C15: a call that has returned or thrown holds no open session: the       *)
(* session it opened is ended on the commit path and on both failure paths, *)
(* and a call that returned early (flag set in the process, flag document   *)
(* found, duplicate key) or whose lock attempt failed never opened one.     *)
C15_SessionsEnded ==
  \A i \in Calls :
    pc[i] = "done" =>
      /\ session[i] # "open"
      /\ (Inserted(i) /\ error[i].op \notin {"getClient", "startSession"})
           <=> session[i] = "ended"
      /\ ~Inserted(i) => session[i] = "none"

C15_Witness ==
  \E i, j \in Calls :
    /\ pc[i] = "done" /\ session[i] = "ended" /\ updateError[i] # NoError
    /\ pc[j] = "done" /\ session[j] = "none" /\ result[j] = "matched"

(* ------------------------- processes that crash ----------------------- *)
(* A process stops for good: none of its calls takes another step.  A       *)
(* request the call had already sent to the datastore (the conditional      *)
(* insert, the commit, the update marking the failure) may still be applied *)
(* there; the writes of a transaction whose commit was not sent are lost.   *)
CrashedPc(l) ==
  CASE l = "lock" -> "orphanLock"
    [] l = "commit" -> "orphanCommit"
    [] l = "markFailed" -> "orphanMarkFailed"
    [] OTHER -> "crashed"

StoppedPcs == {"done", "crashed", "orphanLock", "orphanCommit", "orphanMarkFailed"}

Crash(p) ==
  /\ \E i \in Calls : i[1] = p /\ pc[i] \notin StoppedPcs
  /\ pc' = [i \in Calls |->
              IF i[1] = p /\ pc[i] \notin StoppedPcs THEN CrashedPc(pc[i]) ELSE pc[i]]
  /\ UNCHANGED <<populationAttempted, ret, locals, counters, store, now>>
  /\ UNCHANGED appVars

(* The datastore applies a request whose sender has crashed.                *)
ServerApplies(i) ==
  /\ pc[i] \in {"orphanLock", "orphanCommit", "orphanMarkFailed"}
  /\ pc' = [pc EXCEPT ![i] = "crashed"]
  /\ \/ /\ pc[i] = "orphanLock"
        /\ mock_data_execution' =
             Upsert(mock_data_execution, SeedId,
                    [executed |-> TRUE, timestamp |-> issuedAt[i], instance |-> i])
        /\ UNCHANGED <<contact_form_submissions, txn>>
     \/ /\ pc[i] = "orphanCommit"
        /\ contact_form_submissions' = CommittedSubmissions(contact_form_submissions, txn[i])
        /\ mock_data_execution' = CommittedFlags(mock_data_execution, txn[i])
        /\ txn' = [txn EXCEPT ![i] = [NoTxn EXCEPT !.state = "committed"]]
     \/ /\ pc[i] = "orphanMarkFailed"
        /\ mock_data_execution' =
             SetFields(mock_data_execution, SeedId, FailedFields(error[i], issuedAt[i]))
        /\ UNCHANGED <<contact_form_submissions, txn>>
  /\ UNCHANGED <<populationAttempted, ret, result, error, updateError, session,
                 issuedAt, mockSubmissions, counters, nextId, now>>
  /\ UNCHANGED appVars

(* The steps of a call of populate_with_mock_data after its first await.    *)
RunStep(i) ==
  \/ GetDb(i)
  \/ LockAttempt(i)
  \/ GetClient(i)
  \/ StartSession(i)
  \/ InsertMany(i)
  \/ TxUpdate(i)
  \/ Commit(i)
  \/ MarkFailed(i)

(* The steps of one call of populate_with_mock_data.                        *)
Step(i) == Call(i) \/ RunStep(i)

(* index.ts calls populate_with_mock_data once per process, when the module *)
(* is loaded.                                                               *)
FirstCalls == {i \in Calls : i[2] = 1}

NextCrash ==
  \/ \E i \in FirstCalls : Step(i)
  \/ \E p \in Procs : Crash(p)
  \/ \E i \in FirstCalls : ServerApplies(i)

(* The event loop resumes a call whenever the datastore has answered it; a  *)
(* crash and the fate of an orphaned request are under no obligation.       *)
SpecCrash ==
  Init /\ [][NextCrash]_vars /\ \A i \in FirstCalls : WF_vars(Step(i))

AnyFailure == \E i \in Calls : OperationFailed(i)
OwnerCrashed == \E d \in Flags : pc[d.instance] \in StoppedPcs \ {"done"}
(* The call that created the flag document is dead and its commit was       *)
(* neither applied nor is it still on its way.                              *)
OwnerDead ==
  \E d \in Flags :
    /\ pc[d.instance] \in {"crashed", "orphanMarkFailed"}
    /\ txn[d.instance].state # "committed"

(* Process p has not crashed and has run its first call to the end.         *)
KeptRunning(p) ==
  /\ pc[<<p, 1>>] = "done"
  /\ \A k \in 1..MaxCalls : pc[<<p, k>>] \in {"done", "idle"}

(* No call is under way and no orphaned request is left.                    *)
Quiet == \A i \in Calls : pc[i] \in {"done", "crashed", "idle"}

(* C16 as stated: the store never holds a partial batch or two copies, and  *)
(* once no call is under way, some process that did not crash has run to    *)
(* its end and no datastore call has failed, the store holds one full copy  *)
(* and the flag document is completed or failed.                            *)
C16_Original ==
  /\ contact_form_submissions = <<>> \/ IsBatch(contact_form_submissions)
  /\ (Quiet /\ (\E p \in Procs : KeptRunning(p)) /\ ~AnyFailure)
       => IsBatch(contact_form_submissions) /\ Phase \in {"COMPLETED", "FAILED"}

(* C16 amended: with crashes the store never holds a partial batch or two   *)
(* copies and there is at most one flag document; if the call that created  *)
(* the flag document keeps running and no datastore call fails, the store   *)
(* eventually holds one full copy and the flag document is completed; if    *)
(* that call's process crashes before its commit is sent, the flag document *)
(* never gets completed and the store is never seeded, whatever the other   *)
(* processes do: the flag document stays LOCKED, or is FAILED when the dead *)
(* call's failed mark was sent and is applied, and it stays LOCKED when no  *)
(* datastore call has failed.                                               *)
C16_CrashSafety ==
  /\ [](contact_form_submissions = <<>> \/ IsBatch(contact_form_submissions))
  /\ [](Cardinality(Flags) <= 1)
  /\ [](FlagCompleted <=> IsBatch(contact_form_submissions))
  /\ (Flags # {}) ~>
       (AnyFailure \/ OwnerCrashed
          \/ (IsBatch(contact_form_submissions) /\ Phase = "COMPLETED"))
  /\ [](OwnerDead => ~FlagCompleted /\ contact_form_submissions = <<>>)
  /\ [](OwnerDead => Phase \in {"LOCKED", "FAILED"})
  /\ [](OwnerDead /\ ~AnyFailure => Phase = "LOCKED")
  /\ [][OwnerDead => OwnerDead']_vars

C16_Witness ==
  /\ OwnerDead
  /\ Phase = "LOCKED"
  /\ ~AnyFailure
  /\ Quiet
  /\ \E p \in Procs :
       KeptRunning(p) /\ result[<<p, 1>>] = "matched" /\ ret[<<p, 1>>] = Returned

(* ------------------------------ index.ts ------------------------------ *)
BootOutcomeNoCatch(r) == IF r.status = "thrown" THEN "rejected" ELSE "fulfilled"

(* Lines 34-39: the awaited call either returns (line 36) or throws into    *)
(* the catch clause, which logs (line 38); the async function then ends.    *)
BootOutcome(r) ==
  CASE r.status = "returned" -> "fulfilled"
    [] r.status = "thrown" -> "fulfilled"

AwaitSkipped(p) == mockDataInitialized[p] # "unloaded"

(* Line 45: await mockDataInitialized resumes once the promise is fulfilled. *)
AwaitMockDataInitialized(p) == mockDataInitialized[p] = "fulfilled"

(* The module is loaded: lines 31-42 run up to the first await of           *)
(* populate_with_mock_data, the middlewares are registered and the server   *)
(* listens (line 115).                                                      *)
Boot(p) ==
  /\ mockDataInitialized[p] = "unloaded"
  /\ \E u \in BOOLEAN :
       /\ useMock' = [useMock EXCEPT ![p] = u]
       /\ IF u
            THEN /\ Invoke(<<p, 1>>)
                 /\ mockDataInitialized' = [mockDataInitialized EXCEPT ![p] = "pending"]
            ELSE /\ mockDataInitialized' = [mockDataInitialized EXCEPT ![p] = "fulfilled"]
                 /\ UNCHANGED <<populationAttempted, pc, ret, locals, counters, store, now>>
  /\ UNCHANGED <<requests, handler, call, storeOps>>

(* Lines 35-40: the call of populate_with_mock_data has settled.            *)
MockDataInitializedSettles(p) ==
  /\ mockDataInitialized[p] = "pending"
  /\ pc[<<p, 1>>] = "done"
  /\ mockDataInitialized' =
       [mockDataInitialized EXCEPT ![p] = BootOutcome(ret[<<p, 1>>])]
  /\ UNCHANGED <<populationAttempted, pc, ret, locals, counters, store, now,
                 useMock, requests, handler, call, storeOps>>

(* A request reaches a listening process and enters the first middleware.   *)
(* Requests are numbered in the order they arrive.                          *)
Receive(r, p) ==
  /\ requests[r].stage = "none"
  /\ \A q \in 1 .. r - 1 : requests[q].stage # "none"
  /\ mockDataInitialized[p] # "unloaded"
  /\ requests' = [requests EXCEPT ![r] = [proc |-> p, stage |-> "initializeMockData"]]
  /\ UNCHANGED <<populationAttempted, pc, ret, locals, counters, store, now,
                 useMock, mockDataInitialized, handler, call, storeOps>>

(* Lines 44-47: next() hands the request to express.json (line 49).         *)
InitializeMockData(r) ==
  /\ requests[r].stage = "initializeMockData"
  /\ AwaitMockDataInitialized(requests[r].proc)
  /\ requests' = [requests EXCEPT ![r].stage = "bodyParsing"]
  /\ UNCHANGED <<populationAttempted, pc, ret, locals, counters, store, now,
                 useMock, mockDataInitialized, handler, call, storeOps>>

(* Lines 49-51: the body parsers pass the request on to the routes.         *)
BodyParsers(r) ==
  /\ requests[r].stage = "bodyParsing"
  /\ requests' = [requests EXCEPT ![r].stage = "routes"]
  /\ UNCHANGED <<populationAttempted, pc, ret, locals, counters, store, now,
                 useMock, mockDataInitialized, handler, call, storeOps>>

(* The process whose start and requests are followed; the other processes  *)
(* of the deployment only call populate_with_mock_data on the same          *)
(* datastore.                                                               *)
Server == 1

NextBoot ==
  \/ Boot(Server)
  \/ \E i \in FirstCalls : i[1] # Server /\ Call(i)
  \/ \E i \in FirstCalls : RunStep(i)
  \/ MockDataInitializedSettles(Server)
  \/ \E r \in 1 .. MaxRequests : Receive(r, Server)
  \/ \E r \in 1 .. MaxRequests : InitializeMockData(r)
  \/ \E r \in 1 .. MaxRequests : BodyParsers(r)

(* What the event loop of process p can run next.                           *)
EventLoop(p) ==
  \/ RunStep(<<p, 1>>)
  \/ MockDataInitializedSettles(p)
  \/ \E r \in 1 .. MaxRequests :
       requests[r].proc = p /\ (InitializeMockData(r) \/ BodyParsers(r))

(* The event loop of a process runs every continuation that is ready; when  *)
(* the process is started, when requests arrive and what the other          *)
(* processes do is up to the environment.                                   *)
SpecBoot == Init /\ [][NextBoot]_vars /\ WF_vars(EventLoop(Server))

PastInitializeMockData == {"bodyParsing", "routes"}

(* C17: the promise of the boot wrapper is never rejected and, once         *)
(* pending, is eventually fulfilled, whatever populate_with_mock_data       *)
(* raised; every request waiting on it is eventually passed on.             *)
C17_BootFailureContained ==
  /\ [](\A p \in Procs : mockDataInitialized[p] \in {"unloaded", "pending", "fulfilled"})
  /\ [](\A p \in Procs :
          (mockDataInitialized[p] = "pending" /\ ret[<<p, 1>>].status = "thrown")
             => ENABLED MockDataInitializedSettles(p))
  /\ (mockDataInitialized[Server] = "pending")
       ~> (mockDataInitialized[Server] = "fulfilled")
  /\ \A r \in 1 .. MaxRequests :
       (requests[r].stage = "initializeMockData")
          ~> (requests[r].stage \in PastInitializeMockData)

C17_Witness ==
  \E r \in 1 .. MaxRequests :
    /\ ret[<<Server, 1>>].status = "thrown"
    /\ ret[<<Server, 1>>].error.op \in {"insertMany", "complete", "commit"}
    /\ mockDataInitialized[Server] = "fulfilled"
    /\ requests[r] = [proc |-> Server, stage |-> "routes"]

(* C18: with USE_MOCK the process calls populate_with_mock_data once, when  *)
(* the module is loaded, and no request is past the first middleware before *)
(* that call has settled; without USE_MOCK the process never calls it and   *)
(* the promise is fulfilled from the start.                                 *)
C18_ServeAfterSeeding ==
  /\ [](\A r \in 1 .. MaxRequests :
          requests[r].stage \in PastInitializeMockData =>
            /\ mockDataInitialized[requests[r].proc] = "fulfilled"
            /\ useMock[requests[r].proc] =>
                 /\ pc[<<requests[r].proc, 1>>] = "done"
                 /\ ret[<<requests[r].proc, 1>>].status \in {"returned", "thrown"})
  /\ [](\A p \in Procs :
          mockDataInitialized[p] # "unloaded" =>
            IF useMock[p]
              THEN /\ pc[<<p, 1>>] # "idle"
                   /\ \A k \in 2 .. MaxCalls : pc[<<p, k>>] = "idle"
              ELSE /\ \A k \in 1 .. MaxCalls : pc[<<p, k>>] = "idle"
                   /\ mockDataInitialized[p] = "fulfilled")
  /\ [][\A i \in Calls :
          (i[1] = Server /\ pc[i] = "idle" /\ pc'[i] # "idle") =>
            /\ i[2] = 1
            /\ mockDataInitialized[i[1]] = "unloaded"
            /\ useMock'[i[1]]]_vars

C18_Witness ==
  \E r \in 1 .. MaxRequests :
    /\ useMock[Server]
    /\ requests[r] = [proc |-> Server, stage |-> "bodyParsing"]
    /\ ret[<<Server, 1>>] = Returned
    /\ result[<<Server, 1>>] = "matched"
    /\ \A k \in 2 .. MaxCalls : pc[<<Server, k>>] = "idle"

(* --------------- the submission store: part_000, part_003 ------------- *)
(* A value of the parsed JSON body, with its typeof and its text.           *)
Undefined == [type |-> "undefined", value |-> ""]
Num(t) == [type |-> "number", value |-> t]
Str(t) == [type |-> "string", value |-> t]
JsValues ==
  {Undefined, Num("0"), Num("5"), Str(""), Str("  "), Str("\f"), Str(" Ann "),
   Str(" ann@x.io"), Str("a\f@x.io"), Str("ann@x")}
SubmissionFields == {"name", "email", "subject", "message"}
ValidBody ==
  [name |-> Str(" Ann "), email |-> Str("ann@x.io"), subject |-> Str("Hi"),
   message |-> Str(" Yo ")]
(* Request bodies: the valid one, with one field replaced by any value, or  *)
(* with any number of fields blank.                                         *)
Bodies ==
  {[ValidBody EXCEPT ![f] = v] : f \in SubmissionFields, v \in JsValues}
    \cup [name : {ValidBody.name, Str("  ")}, email : {ValidBody.email, Str("  ")},
          subject : {ValidBody.subject, Str("  ")}, message : {ValidBody.message, Str("  ")}]

(* Arguments of direct calls of the model class.                            *)
CreateArgs == {<<"Zed", "zed@x.io", "Hi", "Yo">>, <<"", "zed@x.io", "Hi", " ">>}
UpdateFieldSets == {[name |-> ""], [subject |-> "Re"], [submission_timestamp |-> 0]}

(* !v of JavaScript.                                                        *)
Falsy(v) ==
  \/ v.type = "undefined"
  \/ v.type = "string" /\ v.value = ""
  \/ v.type = "number" /\ v.value = "0"

(* The white space of String.prototype.trim and of \s: U+0009 to U+000D,    *)
(* U+0020, U+00A0, U+1680 and U+FEFF.  The other white space characters of  *)
(* JavaScript (U+2000 to U+200A, U+2028, U+2029, U+202F, U+205F, U+3000)    *)
(* cannot be written in a string of a module; no value below contains one.  *)
IsSpace(c) ==
  c \in {" ", "\t", "\n", "\r", "\f", "", " ", " ", "﻿"}

RECURSIVE TrimStart(_)
TrimStart(t) ==
  IF Len(t) = 0 THEN t
  ELSE IF IsSpace(SubSeq(t, 1, 1)) THEN TrimStart(SubSeq(t, 2, Len(t))) ELSE t

RECURSIVE TrimEnd(_)
TrimEnd(t) ==
  IF Len(t) = 0 THEN t
  ELSE IF IsSpace(SubSeq(t, Len(t), Len(t))) THEN TrimEnd(SubSeq(t, 1, Len(t) - 1)) ELSE t

(* String.prototype.startsWith.                                             *)
StartsWith(t, prefix) ==
  Len(t) >= Len(prefix) /\ SubSeq(t, 1, Len(prefix)) = prefix

(* String.prototype.trim.                                                   *)
Trim(t) == TrimEnd(TrimStart(t))

(* /^[^\s@]+@[^\s@]+\.[^\s@]+$/.test(t): no white space, one "@" that is    *)
(* not the first character, and after it a "." with at least one character  *)
(* on either side.                                                          *)
EmailRegexTest(t) ==
  LET n == Len(t)
      at == {j \in 1 .. n : SubSeq(t, j, j) = "@"}
  IN /\ \A j \in 1 .. n : ~IsSpace(SubSeq(t, j, j))
     /\ Cardinality(at) = 1
     /\ LET a == CHOOSE j \in at : TRUE
        IN a > 1 /\ \E k \in a + 2 .. n - 1 : SubSeq(t, k, k) = "."

(* The three tests the handler applies to every field; "" when they pass.   *)
FieldError(v, label) ==
  IF Falsy(v) THEN label \o " is required"
  ELSE IF v.type # "string" THEN label \o " must be a string"
  ELSE IF Len(Trim(v.value)) = 0 THEN label \o " cannot be empty"
  ELSE ""

(* The address pattern applied to the trimmed value instead of the value    *)
(* of the body.                                                             *)
EmailErrorTrimmed(v) ==
  IF FieldError(v, "Email") # "" THEN FieldError(v, "Email")
  ELSE IF ~EmailRegexTest(Trim(v.value)) THEN "Email must be a valid email address"
  ELSE ""

(* part_003 lines 42-63.                                                    *)
EmailError(v) ==
  IF FieldError(v, "Email") # "" THEN FieldError(v, "Email")
  ELSE IF ~EmailRegexTest(v.value) THEN "Email must be a valid email address"
  ELSE ""

(* part_003 lines 26-87: the message of the first test that fails.          *)
ValidationError(b) ==
  IF FieldError(b.name, "Name") # "" THEN FieldError(b.name, "Name")
  ELSE IF EmailError(b.email) # "" THEN EmailError(b.email)
  ELSE IF FieldError(b.subject, "Subject") # "" THEN FieldError(b.subject, "Subject")
  ELSE FieldError(b.message, "Message")

(* part_000 lines 81-87.                                                    *)
NewSubmissionData(n, e, s, m, t) ==
  [name |-> n, email |-> e, subject |-> s, message |-> m, submission_timestamp |-> t]

(* findOneAndUpdate({_id}, {$set: fields}).                                 *)
FindOneAndUpdate(subs, id, fields) ==
  [j \in 1 .. Len(subs) |-> IF subs[j]._id = id THEN fields @@ subs[j] ELSE subs[j]]

(* deleteOne({_id}).                                                        *)
DeleteOne(subs, id) == SelectSeq(subs, LAMBDA d : d._id # id)

StoredIds == {contact_form_submissions[j]._id : j \in 1 .. Len(contact_form_submissions)}

(* index.ts lines 109-112: the answer to a request whose handler called    *)
(* next(err).                                                               *)
ErrorHandler(msg) ==
  [pc |-> "idle", id |-> 0, status |-> 500,
   body |-> [error |-> "Internal Server Error: " \o msg]]

(* part_003 lines 113-120 and searchRecipes.ts lines 167-174, from the      *)
(* document found by get_by_id.                                             *)
SubmissionResponse(d) ==
  [contact_form_submission_id |-> d._id, name |-> d.name, email |-> d.email,
   subject |-> d.subject, message |-> d.message,
   submission_timestamp |-> d.submission_timestamp]

seeder == <<populationAttempted, pc, ret, locals, counters, mock_data_execution>>

(* index.ts lines 44-47: the process serves requests once the promise of    *)
(* line 31 is fulfilled.                                                    *)
Serving == AwaitMockDataInitialized(Server)

(* Was the request answered by the error handler of index.ts?               *)
ViaErrorHandler(h) ==
  /\ h.status = 500
  /\ "error" \in DOMAIN h.body
  /\ StartsWith(h.body.error, "Internal Server Error: ")

(* The request whose route handler is being run is answered when the        *)
(* handler, or the error handler after next(err), sends a response.         *)
Respond(reqs, h) ==
  [r \in DOMAIN reqs |->
     IF reqs[r].stage = "handler" /\ h.status # 0
       THEN [reqs[r] EXCEPT !.stage = "answered", !.status = h.status,
                            !.answeredBy =
                              IF ViaErrorHandler(h) THEN "errorHandler" ELSE reqs[r].handledBy]
       ELSE reqs[r]]

(* What a step of a route handler leaves alone.                             *)
HandlerFrame == UNCHANGED <<seeder, now, useMock, mockDataInitialized, call>>

(* How insertOne, findOneAndUpdate and deleteOne settle: the write is       *)
(* applied and acknowledged; it is applied but the caller gets no           *)
(* acknowledged reply (write concern 0, reply lost); or it is rejected and  *)
(* not applied.                                                             *)
WriteOutcomes == {"acknowledged", "applied", "rejected"}

(* The handler's record when create or get_by_id returned null.             *)
CreateFailed(h) ==
  [req |-> h.req, route |-> h.route]
    @@ ErrorHandler("Failed to create contact form submission")

(* part_003 lines 23-95: the request is validated and                       *)
(* ContactFormSubmission.create is called, which waits for getDb().  reqs   *)
(* are the requests, the one being handled included.                        *)
CreateStart(b, reqs) ==
  /\ Serving
  /\ handler.pc = "idle"
  /\ storeOps < MaxStoreOps
  /\ storeOps' = storeOps + 1
  /\ handler' =
       IF ValidationError(b) # ""
         THEN [pc |-> "idle", id |-> 0, status |-> 400,
               body |-> [error |-> ValidationError(b)], req |-> b, route |-> "create"]
         ELSE [pc |-> "create.getDb", id |-> 0, status |-> 0, body |-> NoBody, req |-> b,
               route |-> "create"]
  /\ requests' = Respond(reqs, handler')
  /\ UNCHANGED <<contact_form_submissions, nextId>>
  /\ HandlerFrame

(* A request of the create route reaches its handler.                       *)
CreateContactFormSubmission(b) == CreateStart(b, requests)

(* part_000 lines 77-89: getDb() settles; the clock is read and insertOne   *)
(* is sent with the trimmed fields, or create returns null.                 *)
CreateGetDb ==
  /\ handler.pc = "create.getDb"
  /\ \/ handler' =
          [data |-> NewSubmissionData(Trim(handler.req.name.value),
                                      Trim(handler.req.email.value),
                                      Trim(handler.req.subject.value),
                                      Trim(handler.req.message.value), now)]
            @@ [handler EXCEPT !.pc = "insertOne"]
     \/ handler' = CreateFailed(handler)
  /\ requests' = Respond(requests, handler')
  /\ UNCHANGED <<contact_form_submissions, nextId, storeOps>>
  /\ HandlerFrame

(* part_000 lines 89-105 and part_003 lines 97-104: insertOne settles;      *)
(* create returns the instance and get_by_id is called, or create returns   *)
(* null and the handler calls next(err).                                    *)
InsertOne ==
  /\ handler.pc = "insertOne"
  /\ \E o \in WriteOutcomes :
       /\ IF o = "rejected"
            THEN UNCHANGED <<contact_form_submissions, nextId>>
            ELSE /\ contact_form_submissions' =
                      contact_form_submissions \o WithIds(<<handler.data>>, nextId)
                 /\ nextId' = nextId + 1
       /\ handler' =
            IF o = "acknowledged"
              THEN [handler EXCEPT !.pc = "get.getDb", !.id = nextId]
              ELSE [data |-> handler.data] @@ CreateFailed(handler)
  /\ requests' = Respond(requests, handler')
  /\ UNCHANGED storeOps
  /\ HandlerFrame

(* What the handler does when get_by_id returned null: part_003 lines       *)
(* 106-110, searchRecipes.ts lines 161-164.                                 *)
NotFound(h) ==
  IF h.route = "create"
    THEN [k \in DOMAIN h \ {"pc", "id", "status", "body"} |-> h[k]]
           @@ ErrorHandler("Failed to retrieve created contact form submission")
    ELSE [h EXCEPT !.pc = "idle", !.id = 0, !.status = 404,
                   !.body = [error |-> "Contact form submission with the given ID not found"]]

(* part_000 lines 114-116: getDb() of get_by_id settles and findOne is      *)
(* sent, or get_by_id returns null.                                         *)
GetByIdGetDb ==
  /\ handler.pc = "get.getDb"
  /\ \/ handler' = [handler EXCEPT !.pc = "findOne"]
     \/ handler' = NotFound(handler)
  /\ requests' = Respond(requests, handler')
  /\ UNCHANGED <<contact_form_submissions, nextId, storeOps>>
  /\ HandlerFrame

(* part_000 lines 117-122, part_003 lines 103-123 and searchRecipes.ts      *)
(* lines 158-177: findOne settles and the handler answers.                  *)
GetSaved ==
  /\ handler.pc = "findOne"
  /\ \/ \E j \in 1 .. Len(contact_form_submissions) :
          /\ contact_form_submissions[j]._id = handler.id
          /\ handler' =
               [handler EXCEPT !.pc = "idle", !.id = 0,
                               !.status = IF handler.route = "create" THEN 201 ELSE 200,
                               !.body = SubmissionResponse(contact_form_submissions[j])]
     \/ handler' = NotFound(handler)
  /\ requests' = Respond(requests, handler')
  /\ UNCHANGED <<contact_form_submissions, nextId, storeOps>>
  /\ HandlerFrame

(* What a step of a call of a method of the class leaves alone.             *)
CallFrame == UNCHANGED <<seeder, now, useMock, mockDataInitialized, requests, handler>>

(* A method of ContactFormSubmission is called and waits for getDb().       *)
StartCall(c) ==
  /\ Serving
  /\ call.pc = "idle"
  /\ storeOps < MaxStoreOps
  /\ storeOps' = storeOps + 1
  /\ call' = c
  /\ UNCHANGED <<contact_form_submissions, nextId>>
  /\ CallFrame

(* part_000 lines 70-77: ContactFormSubmission.create called directly.      *)
Create(n, e, s, m) ==
  StartCall([pc |-> "getDb", op |-> "create", args |-> <<n, e, s, m>>])

(* part_000 lines 131-133: ContactFormSubmission.update.                    *)
Update(id, updateFields) ==
  StartCall([pc |-> "getDb", op |-> "update", id |-> id, updateFields |-> updateFields])

(* part_000 lines 154-156: ContactFormSubmission.delete.                    *)
Delete(id) == StartCall([pc |-> "getDb", op |-> "delete", id |-> id])

(* The call has returned.                                                   *)
ReturnedCall(c, value) == [pc |-> "idle", op |-> c.op, returned |-> value]

(* Lines 77-89, 133-136 and 156-158: getDb() settles; the write is sent     *)
(* (create reads the clock first), or the catch clause returns null (false  *)
(* for delete).                                                             *)
CallGetDb ==
  /\ call.pc = "getDb"
  /\ \/ call' =
          IF call.op = "create"
            THEN [pc |-> "sent", op |-> "create",
                  data |-> NewSubmissionData(call.args[1], call.args[2], call.args[3],
                                             call.args[4], now)]
            ELSE [call EXCEPT !.pc = "sent"]
     \/ call' = ReturnedCall(call, IF call.op = "delete" THEN "false" ELSE "null")
  /\ UNCHANGED <<contact_form_submissions, nextId, storeOps>>
  /\ CallFrame

(* Lines 89-105, 136-146 and 158-163: the write settles and the method      *)
(* returns.                                                                 *)
CallSettles ==
  /\ call.pc = "sent"
  /\ \E o \in WriteOutcomes :
       /\ IF o = "rejected"
            THEN UNCHANGED <<contact_form_submissions, nextId>>
            ELSE CASE call.op = "create" ->
                        /\ contact_form_submissions' =
                             contact_form_submissions \o WithIds(<<call.data>>, nextId)
                        /\ nextId' = nextId + 1
                   [] call.op = "update" ->
                        /\ contact_form_submissions' =
                             FindOneAndUpdate(contact_form_submissions, call.id,
                                              call.updateFields)
                        /\ UNCHANGED nextId
                   [] call.op = "delete" ->
                        /\ contact_form_submissions' =
                             DeleteOne(contact_form_submissions, call.id)
                        /\ UNCHANGED nextId
       /\ call' =
            ReturnedCall(call,
              IF call.op = "delete"
                THEN (IF o = "acknowledged" /\ call.id \in StoredIds THEN "true" ELSE "false")
              ELSE IF o = "acknowledged" /\ (call.op = "create" \/ call.id \in StoredIds)
                THEN "instance"
              ELSE "null")
  /\ UNCHANGED storeOps
  /\ CallFrame

NextStore ==
  \/ Boot(Server)
  \/ RunStep(<<Server, 1>>)
  \/ MockDataInitializedSettles(Server)
  \/ Tick
  \/ \E a \in CreateArgs : Create(a[1], a[2], a[3], a[4])
  \/ \E id \in StoredIds, f \in UpdateFieldSets : Update(id, f)
  \/ \E id \in StoredIds : Delete(id)
  \/ CallGetDb
  \/ CallSettles

SpecStore == Init /\ [][NextStore]_vars

(* C19: every stored submission has a name, an email, a subject and a       *)
(* message that are non-empty after trimming.                               *)
C19_FieldsNonEmpty ==
  \A j \in 1 .. Len(contact_form_submissions) :
    \A f \in SubmissionFields : Trim(contact_form_submissions[j][f]) # ""

(* C20: no step changes the submission_timestamp of a stored submission,    *)
(* and a submission that appears in the store carries a timestamp read from *)
(* the server's clock (less the fixed offset, for a record of the batch).   *)
C20_TimestampImmutable ==
  [][/\ \A j \in 1 .. Len(contact_form_submissions) :
          \A k \in 1 .. Len(contact_form_submissions') :
            contact_form_submissions[j]._id = contact_form_submissions'[k]._id =>
              contact_form_submissions'[k].submission_timestamp =
                contact_form_submissions[j].submission_timestamp
     /\ \A k \in 1 .. Len(contact_form_submissions') :
          contact_form_submissions'[k]._id \notin StoredIds =>
            \E t \in StartTime .. now + 1, o \in {0} \cup {MockData[j].offset : j \in 1 .. BatchSize} :
              contact_form_submissions'[k].submission_timestamp = t - o]_vars

(* A field of a body that is missing, not a string or blank after trimming. *)
FieldBad(v) == v.type # "string" \/ Trim(v.value) = ""

(* The label of the first field of the body that fails, in the order name,  *)
(* email, subject, message; "" for a valid body.                            *)
FirstFailing(b) ==
  IF FieldBad(b.name) THEN "Name"
  ELSE IF FieldBad(b.email) \/ ~EmailRegexTest(b.email.value) THEN "Email"
  ELSE IF FieldBad(b.subject) THEN "Subject"
  ELSE IF FieldBad(b.message) THEN "Message"
  ELSE ""

Rejected400 ==
  /\ handler'.status = 400
  /\ StartsWith(handler'.body.error, FirstFailing(handler'.req) \o " ")
  /\ UNCHANGED contact_form_submissions

(* One record is appended: the trimmed fields of the body, under an id that *)
(* no stored record has.                                                    *)
AppendedOne ==
  LET n == Len(contact_form_submissions)
      b == handler'.req
  IN /\ Len(contact_form_submissions') = n + 1
     /\ SubSeq(contact_form_submissions', 1, n) = contact_form_submissions
     /\ LET d == contact_form_submissions'[n + 1]
        IN /\ d._id \notin StoredIds
           /\ d.name = Trim(b.name.value) /\ d.email = Trim(b.email.value)
           /\ d.subject = Trim(b.subject.value) /\ d.message = Trim(b.message.value)

(* The record is appended and the handler goes on to read it back.          *)
StoredOne ==
  /\ AppendedOne
  /\ handler'.status = 0
  /\ handler'.id = contact_form_submissions'[Len(contact_form_submissions')]._id

(* The 201 response carries the values of the submitted body.               *)
Answered201WithBody ==
  LET b == handler'.req
  IN /\ handler'.body.contact_form_submission_id = handler.id
     /\ handler'.body.name = Trim(b.name.value)
     /\ handler'.body.email = Trim(b.email.value)
     /\ handler'.body.subject = Trim(b.subject.value)
     /\ handler'.body.message = Trim(b.message.value)

(* The 201 response carries the values stored under the id of the record.   *)
Answered201WithStored ==
  \E j \in 1 .. Len(contact_form_submissions) :
    LET d == contact_form_submissions[j]
    IN /\ d._id = handler.id
       /\ handler'.body =
            [contact_form_submission_id |-> d._id, name |-> d.name, email |-> d.email,
             subject |-> d.subject, message |-> d.message,
             submission_timestamp |-> d.submission_timestamp]

(* A step of the handler of the create route.                               *)
CreateHandlerStep ==
  /\ handler' # handler
  /\ "route" \in DOMAIN handler'
  /\ handler'.route = "create"

(* The server started without USE_MOCK: requests of the create route, with  *)
(* updates and deletions of stored submissions between their steps.         *)
NextCreate ==
  \/ Boot(Server) /\ ~useMock'[Server]
  \/ Tick
  \/ \E b \in Bodies : CreateContactFormSubmission(b)
  \/ CreateGetDb
  \/ InsertOne
  \/ GetByIdGetDb
  \/ GetSaved
  \/ \E id \in StoredIds, f \in UpdateFieldSets : Update(id, f)
  \/ \E id \in StoredIds : Delete(id)
  \/ CallGetDb
  \/ CallSettles

SpecCreate == Init /\ [][NextCreate]_vars

(* C22 as stated: a body with a failing field is answered 400, naming the   *)
(* first failing field, and the store is unchanged; every valid body stores *)
(* exactly one new record with the trimmed fields (when its insertOne       *)
(* settles, and at no other step) and is answered 201 with those values and *)
(* with nothing else.                                                       *)
C22_Original ==
  [][CreateHandlerStep =>
       IF FirstFailing(handler'.req) # "" THEN Rejected400
       ELSE /\ handler'.status \in {0, 201}
            /\ IF handler.pc = "insertOne" THEN StoredOne
               ELSE UNCHANGED contact_form_submissions
            /\ handler'.status = 201 => Answered201WithBody]_vars

(* C22: a body with a failing field is answered 400, naming the first       *)
(* failing field, and the store is unchanged; for a valid body the store    *)
(* changes only when insertOne settles: one new record with the trimmed     *)
(* fields is stored under a new id, or nothing is; create returns the       *)
(* instance only when it is stored and else the request is answered 500; a  *)
(* valid body is answered 201 with the values then stored under the id of   *)
(* the record, or 500.                                                      *)
C22_CreateHandler ==
  [][CreateHandlerStep =>
       IF FirstFailing(handler'.req) # "" THEN Rejected400
       ELSE /\ handler'.status \in {0, 201, 500}
            /\ IF handler.pc = "insertOne"
                 THEN \/ StoredOne
                      \/ /\ handler'.status = 500
                         /\ AppendedOne \/ UNCHANGED contact_form_submissions
                 ELSE UNCHANGED contact_form_submissions
            /\ handler'.status = 201 => Answered201WithStored]_vars

C22_Witness ==
  /\ handler.status = 201
  /\ FirstFailing(handler.req) = ""
  /\ handler.req.name.value # Trim(handler.req.name.value)
  /\ \E j \in 1 .. Len(contact_form_submissions) :
       /\ contact_form_submissions[j]._id = handler.body.contact_form_submission_id
       /\ contact_form_submissions[j].name = Trim(handler.req.name.value)
       /\ handler.body.name = contact_form_submissions[j].name

(* ---------------- part_001: listContactFormSubmissions ---------------- *)
(* Messages of the errors the driver rejects getDb() or find() with.        *)
DriverMessages == {"connection closed"}

(* part_001 lines 30-40: the documents as they are sent.                    *)
ListResponse(docs) ==
  [j \in 1 .. Len(docs) |->
     [id |-> docs[j]._id, name |-> docs[j].name, email |-> docs[j].email,
      subject |-> docs[j].subject, message |-> docs[j].message,
      submission_timestamp |-> docs[j].submission_timestamp]]

(* part_001 lines 21-24: a request of the list route reaches its handler,   *)
(* which waits for getDb().  reqs are the requests, the one being handled   *)
(* included.                                                                *)
ListStart(reqs) ==
  /\ Serving
  /\ handler.pc = "idle"
  /\ storeOps < MaxStoreOps
  /\ storeOps' = storeOps + 1
  /\ handler' = [pc |-> "list.getDb", id |-> 0, status |-> 0, body |-> NoBody,
                 route |-> "list"]
  /\ requests' = Respond(reqs, handler')
  /\ UNCHANGED <<contact_form_submissions, nextId>>
  /\ HandlerFrame

ListContactFormSubmissions == ListStart(requests)

(* part_001 lines 24-28 and 50-53: getDb() settles and find({}) is sent,    *)
(* outside every session; a rejection goes to the error handler.            *)
ListGetDb ==
  /\ handler.pc = "list.getDb"
  /\ \/ handler' = [handler EXCEPT !.pc = "find"]
     \/ \E msg \in DriverMessages : handler' = [route |-> "list"] @@ ErrorHandler(msg)
  /\ requests' = Respond(requests, handler')
  /\ UNCHANGED <<contact_form_submissions, nextId, storeOps>>
  /\ HandlerFrame

(* part_001 lines 28-53: toArray() settles and the 200 response is sent; a  *)
(* rejection goes to the error handler.                                     *)
ListFind ==
  /\ handler.pc = "find"
  /\ \/ handler' = [handler EXCEPT !.pc = "idle", !.status = 200,
                                   !.body = [contact_form_submissions |->
                                               ListResponse(contact_form_submissions)]]
     \/ \E msg \in DriverMessages : handler' = [route |-> "list"] @@ ErrorHandler(msg)
  /\ requests' = Respond(requests, handler')
  /\ UNCHANGED <<contact_form_submissions, nextId, storeOps>>
  /\ HandlerFrame

(* A second process started on the same datastore.                          *)
Peer == 2

NextList ==
  \/ Boot(Server)
  \/ RunStep(<<Server, 1>>)
  \/ MockDataInitializedSettles(Server)
  \/ Boot(Peer)
  \/ RunStep(<<Peer, 1>>)
  \/ MockDataInitializedSettles(Peer)
  \/ ListContactFormSubmissions
  \/ ListGetDb
  \/ ListFind

SpecList == Init /\ [][NextList]_vars

(* The call whose conditional insert created the flag document has not      *)
(* committed: its transaction is still open, or it has failed.              *)
OwnerUncommitted ==
  \E i \in FirstCalls :
    /\ Inserted(i)
    /\ \/ pc[i] \in {"getClient", "startSession", "insertMany", "txUpdate", "commit",
                     "markFailed"}
       \/ txn[i].state = "aborted"
       \/ ret[i].status = "thrown"

(* C23: a list request is answered with the committed submissions only: its *)
(* response holds records of the batch only when a transaction of run() has *)
(* committed, and it is empty while the owner of the lock has not committed *)
(* or has failed, also when run() of the answering process has returned.    *)
C23_ListWithoutBatch ==
  [][(handler.pc = "find" /\ handler'.status = 200) =>
       LET listed == handler'.body.contact_form_submissions
       IN /\ BatchRecords(listed) # {} => FlagCompleted /\ Len(listed) = BatchSize
          /\ OwnerUncommitted => listed = <<>>
          /\ (useMock[Server] /\ ~OwnerUncommitted /\ FlagCompleted) =>
               Len(listed) = BatchSize]_vars

C23_Witness ==
  /\ useMock[Server] /\ useMock[Peer]
  /\ ret[<<Server, 1>>] = Returned
  /\ result[<<Server, 1>>] = "matched"
  /\ Inserted(<<Peer, 1>>)
  /\ pc[<<Peer, 1>>] = "commit"
  /\ Len(txn[<<Peer, 1>>].inserts) = BatchSize
  /\ handler.status = 200
  /\ handler.body.contact_form_submissions = <<>>

(* ------------------- searchRecipes.ts: searchRecipes ------------------- *)
MaxResults == 2                     \* longest list the search call answers with

(* req.query.ingredients: absent, a string, or (a repeated parameter) an    *)
(* array.                                                                   *)
IngredientsValues ==
  {Undefined, Str(""), Str("  "), Str(" egg "), [type |-> "object", value |-> "egg,ham"]}

(* The decoded SPOONACULAR_API_KEY; "" when the variable is not set.        *)
ApiKeys == {"", "key"}

(* Elements of the array the search call answers with.                      *)
JsonNull == [type |-> "null"]
SearchItems == {[type |-> "object", id |-> 1], [type |-> "object", id |-> 2],
                [type |-> "null", id |-> 0]}
SearchLists == UNION {[1 .. n -> SearchItems] : n \in 0 .. MaxResults}

(* Bodies of the information call.  An extendedIngredients that is not an   *)
(* array is written as the empty array, an ingredient without original as   *)
(* "", an absent string as "".                                              *)
Omelette ==
  [type |-> "object", title |-> "Omelette", extendedIngredients |-> <<"2 eggs", "", "salt">>,
   instructions |-> "Whisk.", analyzedInstructions |-> <<>>, image |-> "o.jpg",
   sourceUrl |-> "http://o", spoonacularSourceUrl |-> "http://s/o"]
Soup ==
  [type |-> "object", title |-> "", extendedIngredients |-> <<>>, instructions |-> "",
   analyzedInstructions |-> << <<[number |-> "1", step |-> "Boil"],
                                 [number |-> "2", step |-> "Serve"]>> >>,
   image |-> "", sourceUrl |-> "", spoonacularSourceUrl |-> "http://s/soup"]
Details == {Omelette, Soup, JsonNull}

(* How a fetch and the json() of its response settle.                       *)
SearchOutcomes ==
  [kind : {"throws", "notOk", "jsonThrows", "notArray"}, results : {<<>>}]
    \cup [kind : {"list"}, results : SearchLists]
NoSearch == [kind |-> "none", results |-> <<>>]
DetailOutcomes ==
  [kind : {"ok"}, detail : Details]
    \cup [kind : {"throws", "notOk", "jsonThrows"}, detail : {JsonNull}]

(* Line 97: steps.map(step => `${step.number}. ${step.step}`).join(' ').    *)
RECURSIVE JoinSteps(_)
JoinSteps(steps) ==
  IF Len(steps) = 0 THEN ""
  ELSE IF Len(steps) = 1 THEN steps[1].number \o ". " \o steps[1].step
  ELSE steps[1].number \o ". " \o steps[1].step \o " " \o JoinSteps(Tail(steps))

(* Lines 80-107: the recipe built from the body of the information call.    *)
ToRecipe(d) ==
  [title |-> d.title,
   ingredients |-> SelectSeq(d.extendedIngredients, LAMBDA o : o # ""),
   instructions |->
     IF d.instructions # "" THEN d.instructions
     ELSE IF Len(d.analyzedInstructions) > 0 THEN JoinSteps(d.analyzedInstructions[1])
     ELSE "",
   image_url |-> d.image,
   source_url |-> IF d.sourceUrl # "" THEN d.sourceUrl ELSE d.spoonacularSourceUrl]

PushRecipeFront(recipes, r) == <<r>> \o recipes

(* Line 109: recipes.push(recipe).                                          *)
PushRecipe(recipes, r) == Append(recipes, r)

(* Lines 66-68: the next element of the list whose id can be read; reading  *)
(* the id of null throws and the catch clause goes on.                      *)
RECURSIVE NextFetch(_, _)
NextFetch(results, k) ==
  IF k > Len(results) THEN k
  ELSE IF results[k].type = "null" THEN NextFetch(results, k + 1)
  ELSE k

(* The handler between two awaits: its request, what the search call        *)
(* answered, the position in the list, the recipes so far, the calls sent   *)
(* and what the information calls answered.                                 *)
RecipesHandler(l, status, body, req, search, k, recipes, fetches, details) ==
  [pc |-> l, id |-> 0, status |-> status, body |-> body, req |-> req, search |-> search,
   k |-> k, recipes |-> recipes, fetches |-> fetches, details |-> details,
   route |-> "recipes"]

RecipesFailed == [error |-> "Failed to retrieve recipes from the API"]

(* Lines 66-122 from element k on: the information call of the next         *)
(* element is sent, or the loop is over and the response is sent.           *)
Loop(h, k, recipes, details) ==
  LET n == NextFetch(h.search.results, k)
  IN IF n > Len(h.search.results)
       THEN RecipesHandler("idle", 200, [recipes |-> recipes], h.req, h.search, n,
                           recipes, h.fetches, details)
       ELSE RecipesHandler("detail", 0, NoBody, h.req, h.search, n, recipes,
                           Append(h.fetches, [call |-> "information",
                                              arg |-> h.search.results[n].id]),
                           details)

(* Lines 19-47: the parameter and the key are checked and the search call   *)
(* is sent.  reqs are the requests, the one being handled included.         *)
SearchStart(q, key, reqs) ==
  /\ Serving
  /\ handler.pc = "idle"
  /\ LET req == [ingredients |-> q, apiKey |-> key]
         Answered(status, body) ==
           RecipesHandler("idle", status, body, req, NoSearch, 0, <<>>, <<>>, <<>>)
     IN handler' =
          IF Falsy(q)
            THEN Answered(400, [error |-> "Ingredients parameter is required"])
          ELSE IF q.type # "string" \/ Len(Trim(q.value)) = 0
            THEN Answered(400, [error |-> "Ingredients parameter must be a non-empty string"])
          ELSE IF key = ""
            THEN Answered(500, RecipesFailed)
          ELSE RecipesHandler("search", 0, NoBody, req, NoSearch, 0, <<>>,
                              <<[call |-> "findByIngredients", arg |-> 0]>>, <<>>)
  /\ requests' = Respond(reqs, handler')
  /\ UNCHANGED <<contact_form_submissions, nextId, storeOps>>
  /\ HandlerFrame

(* A request of the recipes route reaches its handler.                      *)
SearchRecipes(q, key) == SearchStart(q, key, requests)

(* err.message of the error the search call was rejected with: that of     *)
(* fetch() (the request could not be made), or that of json() (the body,    *)
(* here "<html>", is not JSON).                                             *)
RejectionMessage(o) ==
  IF o.kind = "throws" THEN "fetch failed"
  ELSE "Unexpected token '<', \"<html>\" is not valid JSON"

(* The handler's record after next(e) with a rejection of fetch or json().  *)
FetchThrew(h, o) ==
  [h EXCEPT !.pc = "idle", !.status = 500, !.search = o,
            !.body = ErrorHandler(RejectionMessage(o)).body]

(* Lines 47-55 and 123-126: the search call settles; json() of an ok        *)
(* response is called.                                                      *)
SearchSettles ==
  /\ handler.pc = "search"
  /\ \/ handler' = [handler EXCEPT !.pc = "search.json"]
     \/ \E o \in {x \in SearchOutcomes : x.kind \in {"throws", "notOk"}} :
          handler' =
            IF o.kind = "throws" THEN FetchThrew(handler, o)
            ELSE [handler EXCEPT !.pc = "idle", !.status = 500, !.search = o,
                                 !.body = RecipesFailed]
  /\ requests' = Respond(requests, handler')
  /\ UNCHANGED <<contact_form_submissions, nextId, storeOps>>
  /\ HandlerFrame

(* Lines 55-66 and 123-126: json() of the search response settles.          *)
SearchJson ==
  /\ handler.pc = "search.json"
  /\ \E o \in {x \in SearchOutcomes : x.kind \in {"jsonThrows", "notArray", "list"}} :
       handler' =
         IF o.kind = "jsonThrows" THEN FetchThrew(handler, o)
         ELSE IF o.kind = "notArray"
           THEN [handler EXCEPT !.pc = "idle", !.status = 500, !.search = o,
                                !.body = RecipesFailed]
         ELSE Loop([handler EXCEPT !.search = o], 1, <<>>, <<>>)
  /\ requests' = Respond(requests, handler')
  /\ UNCHANGED <<contact_form_submissions, nextId, storeOps>>
  /\ HandlerFrame

(* Lines 71-78 and 110-113: the information call of element k settles;      *)
(* json() of an ok response is called.                                      *)
DetailSettles ==
  /\ handler.pc = "detail"
  /\ \/ handler' = [handler EXCEPT !.pc = "detail.json"]
     \/ \E o \in {x \in DetailOutcomes : x.kind \in {"throws", "notOk"}} :
          handler' = Loop(handler, handler.k + 1, handler.recipes,
                          Append(handler.details, o))
  /\ requests' = Respond(requests, handler')
  /\ UNCHANGED <<contact_form_submissions, nextId, storeOps>>
  /\ HandlerFrame

(* Lines 78-114: json() of the information response settles and the recipe  *)
(* is built.                                                                *)
DetailJson ==
  /\ handler.pc = "detail.json"
  /\ \E o \in {x \in DetailOutcomes : x.kind \in {"jsonThrows", "ok"}} :
       handler' =
         Loop(handler, handler.k + 1,
              IF o.kind = "ok" /\ o.detail.type = "object"
                THEN PushRecipe(handler.recipes, ToRecipe(o.detail))
                ELSE handler.recipes,
              Append(handler.details, o))
  /\ requests' = Respond(requests, handler')
  /\ UNCHANGED <<contact_form_submissions, nextId, storeOps>>
  /\ HandlerFrame

NextRecipes ==
  \/ Boot(Server) /\ ~useMock'[Server]
  \/ \E q \in IngredientsValues, key \in ApiKeys : SearchRecipes(q, key)
  \/ SearchSettles
  \/ SearchJson
  \/ DetailSettles
  \/ DetailJson

SpecRecipes == Init /\ [][NextRecipes]_vars

(* An information call that neither failed nor threw: the response was ok   *)
(* and its body was turned into a recipe.                                   *)
DetailSucceeded(o) == o.kind = "ok" /\ o.detail # JsonNull

(* The titles and sources of the bodies of the successful calls, in the     *)
(* order the calls were answered.                                           *)
RECURSIVE SucceededDetails(_)
SucceededDetails(details) ==
  IF Len(details) = 0 THEN <<>>
  ELSE IF DetailSucceeded(details[1])
    THEN <<details[1].detail>> \o SucceededDetails(Tail(details))
  ELSE SucceededDetails(Tail(details))

ObjectItems(results) == SelectSeq(results, LAMBDA x : x.type = "object")

SearchAnswered ==
  /\ "search" \in DOMAIN handler
  /\ handler.pc = "idle"

(* C24: a search with a non-blank ingredients parameter, a key and a search *)
(* call that answered a list is answered 200 with one recipe per successful *)
(* information call, in the order of the list, whatever the other calls     *)
(* did; one information call is sent per element of the list; a missing or  *)
(* blank parameter is answered 400 and no call is sent.                     *)
C24_RecipeSearch ==
  SearchAnswered =>
    LET q == handler.req.ingredients
        kept == SucceededDetails(handler.details)
    IN /\ (q.type = "undefined" \/ (q.type = "string" /\ Trim(q.value) = "")) =>
            handler.status = 400 /\ handler.fetches = <<>>
       /\ (/\ q.type = "string" /\ Trim(q.value) # ""
           /\ handler.req.apiKey # ""
           /\ handler.search.kind = "list") =>
            /\ handler.status = 200
            /\ Len(handler.details) = Len(ObjectItems(handler.search.results))
            /\ Len(handler.fetches) = 1 + Len(handler.details)
            /\ \A j \in 1 .. Len(handler.details) :
                 handler.fetches[j + 1].arg = ObjectItems(handler.search.results)[j].id
            /\ Len(handler.body.recipes) = Len(kept)
            /\ \A j \in 1 .. Len(kept) : handler.body.recipes[j] = ToRecipe(kept[j])

C24_Witness ==
  /\ SearchAnswered
  /\ handler.status = 200
  /\ Len(handler.search.results) = MaxResults
  /\ \E j \in 1 .. Len(handler.details) : handler.details[j].kind = "throws"
  /\ Len(handler.body.recipes) = 1
  /\ Len(handler.details) = 2

(* ------------------- index.ts: routes and the JWT check ---------------- *)
(* Lines 53-70: the routes, in the order of their registration.             *)
RouteTable ==
  << [method |-> "POST", path |-> "/api/signup", handler |-> "signup"],
     [method |-> "POST", path |-> "/api/login", handler |-> "login"],
     [method |-> "GET", path |-> "/api/logout", handler |-> "logout"],
     [method |-> "POST", path |-> "/api/forgot-password", handler |-> "forgotPassword"],
     [method |-> "POST", path |-> "/api/reset-password", handler |-> "resetPassword"],
     [method |-> "GET", path |-> "/api/contact_form_submissions",
      handler |-> "listContactFormSubmissions"],
     [method |-> "POST", path |-> "/api/contact_form_submissions",
      handler |-> "createContactFormSubmission"],
     [method |-> "GET",
      path |-> "/api/contact_form_submissions/:contact_form_submission_id",
      handler |-> "getContactFormSubmission"],
     [method |-> "GET", path |-> "/api/github_profile", handler |-> "getGitHubProfile"],
     [method |-> "GET", path |-> "/api/recipes", handler |-> "searchRecipes"],
     [method |-> "GET", path |-> "/api/storm/me", handler |-> "getCurrentAuthUser"],
     [method |-> "GET", path |-> "/api/weather", handler |-> "getWeatherData"] >>

(* Lines 77-83: the path prefixes the JWT middleware lets through.          *)
AuthFreePrefixes ==
  {"/api/signup", "/api/login", "/api/logout", "/api/reset-password",
   "/api/forgot-password"}

AccountPaths ==
  {"/api/signup", "/api/login", "/api/logout", "/api/forgot-password",
   "/api/reset-password"}

(* The files of the public folder served by express.static (line 73).       *)
PublicFiles == {"/login.html"}

(* The requests sent to the server.                                         *)
Methods == {"GET", "POST"}
Paths ==
  {RouteTable[k].path : k \in {1, 2, 3, 6, 9, 10, 11, 12}}
    \cup {"/api/contact_form_submissions/1", "/login.html", "/api/unknown"}
NoHeader == [present |-> FALSE, value |-> ""]
Header(t) == [present |-> TRUE, value |-> t]
AuthHeaders == {NoHeader, Header("Basic good"), Header("Bearer good"), Header("Bearer bad")}
(* The tokens jwt.verify accepts under process.env.JWT_SECRET.              *)
VerifiedTokens == {"good"}
HttpRequests == [method : Methods, path : Paths, authorization : AuthHeaders]

(* Does the route's path pattern match the request's path?                  *)
PathMatches(pattern, path) ==
  IF StartsWith(pattern, "/api/contact_form_submissions/:")
    THEN /\ StartsWith(path, "/api/contact_form_submissions/")
         /\ Len(path) > Len("/api/contact_form_submissions/")
    ELSE path = pattern

MatchingRoutes(q) ==
  {k \in 1 .. Len(RouteTable) :
     RouteTable[k].method = q.method /\ PathMatches(RouteTable[k].path, q.path)}

(* Lines 76-105: what the JWT middleware does with a request.               *)
JwtCheck(q) ==
  IF \E pre \in AuthFreePrefixes : StartsWith(q.path, pre) THEN "next"
  ELSE IF ~(q.authorization.present /\ StartsWith(q.authorization.value, "Bearer "))
    THEN "401"
  ELSE IF SubSeq(q.authorization.value, 8, Len(q.authorization.value)) \in VerifiedTokens
    THEN "next"
  ELSE "401"

Answer(q, by, status) == [q EXCEPT !.stage = "answered", !.answeredBy = by, !.status = status]

(* A request reaches the listening server and enters the first middleware.  *)
Arrive(r, q) ==
  /\ requests[r].stage = "none"
  /\ \A k \in 1 .. r - 1 : requests[k].stage # "none"
  /\ mockDataInitialized[Server] # "unloaded"
  /\ requests' = [requests EXCEPT ![r] =
                    [proc |-> Server, stage |-> "initializeMockData", method |-> q.method,
                     path |-> q.path, authorization |-> q.authorization,
                     handledBy |-> "none", answeredBy |-> "none", status |-> 0]]
  /\ UNCHANGED <<populationAttempted, pc, ret, locals, counters, store, now,
                 useMock, mockDataInitialized, handler, call, storeOps>>

(* The first route registered that matches the request.                     *)
FirstMatch(q) == CHOOSE k \in MatchingRoutes(q) : \A j \in MatchingRoutes(q) : k <= j

(* req.params.contact_form_submission_id as the id of a document: "1" is    *)
(* the id of the first document stored, any other text is the id of none.   *)
ParamId(path) ==
  IF SubSeq(path, Len("/api/contact_form_submissions/") + 1, Len(path)) = "1" THEN 1 ELSE 0

(* searchRecipes.ts lines 146-158: the handler of the route with a          *)
(* parameter calls get_by_id, which waits for getDb().  The parameter of a  *)
(* matched route is never empty.                                            *)
GetContactFormSubmission(id, reqs) ==
  /\ Serving
  /\ handler.pc = "idle"
  /\ storeOps < MaxStoreOps
  /\ storeOps' = storeOps + 1
  /\ handler' = [pc |-> "get.getDb", id |-> id, status |-> 0, body |-> NoBody,
                 req |-> [contact_form_submission_id |-> id], route |-> "get"]
  /\ requests' = Respond(reqs, handler')
  /\ UNCHANGED <<contact_form_submissions, nextId>>
  /\ HandlerFrame

(* The handlers whose steps are followed in detail.                         *)
DetailedHandlers ==
  {"listContactFormSubmissions", "createContactFormSubmission", "getContactFormSubmission",
   "searchRecipes"}

(* What the other handlers can answer themselves: part_001 lines 85-150     *)
(* (getGitHubProfile), part_002 lines 32-139 (getWeatherData); the handlers *)
(* of the account routes and of /api/storm/me are not part of the sources   *)
(* and may answer anything.                                                 *)
OwnStatuses(h) ==
  CASE h = "getGitHubProfile" -> {200, 400, 404}
    [] h = "getWeatherData" -> {200, 400}
    [] OTHER -> {200, 400, 401}

(* Lines 53-70: the first matching route hands the request to its handler,  *)
(* which runs up to its first await (one handler followed in detail runs at *)
(* a time); with no matching route the request goes on to express.static.   *)
Routes(r) ==
  /\ requests[r].stage = "routes"
  /\ IF MatchingRoutes(requests[r]) = {}
       THEN /\ requests' = [requests EXCEPT ![r].stage = "static"]
            /\ UNCHANGED <<handler, storeOps, contact_form_submissions, nextId>>
            /\ HandlerFrame
       ELSE LET h == RouteTable[FirstMatch(requests[r])].handler
                reqs == [requests EXCEPT ![r].stage = "handler", ![r].handledBy = h]
            IN \/ /\ h = "createContactFormSubmission"
                  /\ \E b \in Bodies : CreateStart(b, reqs)
               \/ /\ h = "listContactFormSubmissions"
                  /\ ListStart(reqs)
               \/ /\ h = "getContactFormSubmission"
                  /\ GetContactFormSubmission(ParamId(requests[r].path), reqs)
               \/ /\ h = "searchRecipes"
                  /\ \E q \in IngredientsValues, key \in ApiKeys : SearchStart(q, key, reqs)
               \/ /\ h \notin DetailedHandlers
                  /\ requests' = [requests EXCEPT ![r].stage = "otherHandler",
                                                  ![r].handledBy = h]
                  /\ UNCHANGED <<handler, storeOps, contact_form_submissions, nextId>>
                  /\ HandlerFrame

(* A handler that is not followed in detail answers, or calls next(err) and *)
(* the error handler (lines 109-112) answers.                               *)
OtherHandlerAnswers(r) ==
  /\ requests[r].stage = "otherHandler"
  /\ \/ \E status \in OwnStatuses(requests[r].handledBy) :
          requests' = [requests EXCEPT ![r] =
                         Answer(requests[r], requests[r].handledBy, status)]
     \/ requests' = [requests EXCEPT ![r] = Answer(requests[r], "errorHandler", 500)]
  /\ UNCHANGED <<handler, storeOps, contact_form_submissions, nextId>>
  /\ HandlerFrame

(* Line 73: express.static answers a GET of a file of the public folder.    *)
Static(r) ==
  /\ requests[r].stage = "static"
  /\ requests' = [requests EXCEPT ![r] =
       IF requests[r].method = "GET" /\ requests[r].path \in PublicFiles
         THEN Answer(requests[r], "static", 200)
         ELSE [requests[r] EXCEPT !.stage = "auth"]]
  /\ UNCHANGED <<populationAttempted, pc, ret, locals, counters, store, now,
                 useMock, mockDataInitialized, handler, call, storeOps>>

(* Lines 76-105: the JWT middleware answers 401 or calls next(); nothing    *)
(* but the error handler is registered after it, so the framework answers   *)
(* 404.                                                                     *)
Auth(r) ==
  /\ requests[r].stage = "auth"
  /\ requests' = [requests EXCEPT ![r] =
       IF JwtCheck(requests[r]) = "401"
         THEN Answer(requests[r], "auth", 401)
         ELSE Answer(requests[r], "notFound", 404)]
  /\ UNCHANGED <<populationAttempted, pc, ret, locals, counters, store, now,
                 useMock, mockDataInitialized, handler, call, storeOps>>

NextRoutes ==
  \/ Boot(Server)
  \/ RunStep(<<Server, 1>>)
  \/ MockDataInitializedSettles(Server)
  \/ \E r \in 1 .. MaxRequests, q \in HttpRequests : Arrive(r, q)
  \/ \E r \in 1 .. MaxRequests : InitializeMockData(r)
  \/ \E r \in 1 .. MaxRequests : BodyParsers(r)
  \/ \E r \in 1 .. MaxRequests : Routes(r)
  \/ \E r \in 1 .. MaxRequests : OtherHandlerAnswers(r)
  \/ CreateGetDb
  \/ InsertOne
  \/ GetByIdGetDb
  \/ GetSaved
  \/ ListGetDb
  \/ ListFind
  \/ SearchSettles
  \/ SearchJson
  \/ DetailSettles
  \/ DetailJson
  \/ \E r \in 1 .. MaxRequests : Static(r)
  \/ \E r \in 1 .. MaxRequests : Auth(r)

SpecRoutes == Init /\ [][NextRoutes]_vars

RouteHandlers == {RouteTable[k].handler : k \in 6 .. 12}
CarriesVerifiedToken(q) ==
  /\ q.authorization.present
  /\ StartsWith(q.authorization.value, "Bearer ")
  /\ SubSeq(q.authorization.value, 8, Len(q.authorization.value)) \in VerifiedTokens

(* C21: for a request whose path is not one of the five account endpoints   *)
(* and which carries no "Bearer <token>" header with a token that verifies, *)
(* none of the route handlers runs, and its answer is 401.                  *)
C21_NonAccountRoutesGated ==
  \A r \in 1 .. MaxRequests :
    (/\ requests[r].stage \notin {"none", "initializeMockData", "bodyParsing", "routes"}
     /\ requests[r].path \notin AccountPaths
     /\ ~CarriesVerifiedToken(requests[r]))
      => /\ requests[r].handledBy \notin RouteHandlers
         /\ requests[r].stage = "answered" => requests[r].status = 401
====
